---- MODULE Spec2Model ----
(***************************************************************************)
(* Model of the voice-synthesis core of peer-elpis:                        *)
(*   voice/modules/voice_synth.py   (VoiceSynthesizer)                     *)
(*   voice/internal_openvoice/commons.py (intersperse, generate_path)      *)
(*   voice/tts_engine.py            (TTSEngine)                            *)
(*   services/voice_engine_service.py (VoiceEngineService)                 *)
(*                                                                         *)
(* Text is a sequence of one-character strings.  IPA characters have no    *)
(* ASCII form, so each is written as one string "ipa_<name>" and counts as *)
(* ONE character:                                                          *)
(*   ipa_I = U+026A   ipa_U = U+028A   ipa_schwa = U+0259  ipa_E = U+025B  *)
(*   ipa_eth = U+00F0 ipa_long = U+02D0 ipa_turned_r = U+0279              *)
(*   ipa_flap = U+027E ipa_A = U+0251  ipa_ae = U+00E6    ipa_V = U+028C   *)
(*   ipa_O = U+0254   ipa_3 = U+025C   ipa_theta = U+03B8 ipa_eng = U+014B *)
(*   ipa_esh = U+0283 ipa_ezh = U+0292                                     *)
(* The empty string "" is the empty symbol of the default symbol table and *)
(* "th" is the two-character alternative of ipa_eth.                       *)
(***************************************************************************)
EXTENDS Integers, Sequences, FiniteSets, TLC

VARIABLES
    cfg,              \* self.config and the facts fixed by __init__/_load_model
    attn,             \* the last commons.generate_path call and its result
    clarity_mode,     \* self.clarity_mode
    enable_prosody_heuristics, \* self.enable_prosody_heuristics
    seq_cache,        \* self._seq_cache: (text, language, force_chars) -> ids
    last_stress,      \* self._last_stress_indices
    ref_cache,        \* self._ref_cache: reference path -> embedding
    pseudo_proj,      \* self._pseudo_proj: the lazily seeded projection matrix
    tok,              \* what the last _text_to_ids call did (observation)
    returned,         \* every (key, ids) pair _text_to_ids has returned (observation)
    pc,               \* position of the running synthesis request
    req,              \* the running request: its arguments and locals
    infers,           \* model.infer calls made for the current sentence
    audio_segments,   \* the request's audio_segments list
    outcome,          \* how the last finished request ended
    calls,            \* how many public calls have been made (bounds the run)
    tts,              \* TTSEngine: _ref_audio and _engine_dir, and whether a
                      \* neural attempt has raised since they were last set
                      \* (observation)
    workers,          \* the _speak_thread threads started so far, one per speak
    svc               \* VoiceEngineService and the files it reads and writes

vars == <<cfg, attn, clarity_mode, enable_prosody_heuristics, seq_cache, last_stress,
          ref_cache, pseudo_proj, tok, returned, pc, req, infers,
          audio_segments, outcome, calls, tts, workers, svc>>

----------------------------------------------------------------------------
(* Generic helpers *)

Range(f) == {f[i] : i \in DOMAIN f}

RECURSIVE FilterSeq(_, _)
\* [x for x in s if x \in keep]
FilterSeq(s, keep) ==
    IF s = <<>> THEN <<>>
    ELSE IF Head(s) \in keep THEN <<Head(s)>> \o FilterSeq(Tail(s), keep)
    ELSE FilterSeq(Tail(s), keep)

----------------------------------------------------------------------------
(* Characters: str.lower(), \w and \s of the re module *)

UpperLetters ==
    {"A","B","C","D","E","F","G","H","I","J","K","L","M",
     "N","O","P","Q","R","S","T","U","V","W","X","Y","Z"}

LowerOf ==
    [c \in UpperLetters |->
        CASE c = "A" -> "a" [] c = "B" -> "b" [] c = "C" -> "c" [] c = "D" -> "d"
          [] c = "E" -> "e" [] c = "F" -> "f" [] c = "G" -> "g" [] c = "H" -> "h"
          [] c = "I" -> "i" [] c = "J" -> "j" [] c = "K" -> "k" [] c = "L" -> "l"
          [] c = "M" -> "m" [] c = "N" -> "n" [] c = "O" -> "o" [] c = "P" -> "p"
          [] c = "Q" -> "q" [] c = "R" -> "r" [] c = "S" -> "s" [] c = "T" -> "t"
          [] c = "U" -> "u" [] c = "V" -> "v" [] c = "W" -> "w" [] c = "X" -> "x"
          [] c = "Y" -> "y" [] c = "Z" -> "z"]

LowerLetters == {LowerOf[c] : c \in UpperLetters}

IpaLetters ==
    {"ipa_I","ipa_U","ipa_schwa","ipa_E","ipa_eth","ipa_long","ipa_turned_r",
     "ipa_flap","ipa_A","ipa_ae","ipa_V","ipa_O","ipa_3","ipa_theta","ipa_eng",
     "ipa_esh","ipa_ezh"}

Digits == {"0","1","2","3","4","5","6","7","8","9"}

Whitespace == {" ", "\t", "\n"}

\* ch.lower()
Lower(c) == IF c \in UpperLetters THEN LowerOf[c] ELSE c

\* text.lower()
LowerText(text) == [i \in DOMAIN text |-> Lower(text[i])]

\* the class \w (letters, digits, underscore); ipa_long is a modifier letter
IsWordChar(c) ==
    c \in UpperLetters \cup LowerLetters \cup IpaLetters \cup Digits \cup {"_"}

RECURSIVE Strip(_)
\* str.strip(): leading and trailing whitespace removed
Strip(text) ==
    IF text = <<>> THEN <<>>
    ELSE IF Head(text) \in Whitespace THEN Strip(Tail(text))
    ELSE IF text[Len(text)] \in Whitespace THEN Strip(SubSeq(text, 1, Len(text) - 1))
    ELSE text

RECURSIVE SplitWords(_, _)
\* str.split(): the maximal runs of non-whitespace, in order (cur: the run so far)
SplitWords(text, cur) ==
    IF text = <<>> THEN (IF cur = <<>> THEN <<>> ELSE <<cur>>)
    ELSE IF Head(text) \in Whitespace
         THEN (IF cur = <<>> THEN <<>> ELSE <<cur>>) \o SplitWords(Tail(text), <<>>)
         ELSE SplitWords(Tail(text), Append(cur, Head(text)))

\* re.sub(r'[^\w\s]', '', text.lower()), then .strip().split()
CleanWords(text) ==
    LET lowered == LowerText(text)
        kept == FilterSeq(lowered, {c \in Range(lowered) :
                                      IsWordChar(c) \/ c \in Whitespace})
    IN SplitWords(Strip(kept), <<>>)

----------------------------------------------------------------------------
(* Symbol table: self.symbols, self.sym2id, self.blank_id *)

\* s in self.sym2id
InVocab(symbols, s) == \E i \in DOMAIN symbols : symbols[i] = s

\* self.sym2id[s]: ids count from 0; in a dict comprehension over
\* enumerate(symbols) the LAST index of a repeated symbol wins
Sym2Id(symbols, s) ==
    (CHOOSE i \in DOMAIN symbols :
        /\ symbols[i] = s
        /\ \A j \in DOMAIN symbols : symbols[j] = s => j <= i) - 1

NoBlank == -1

\* self.blank_id: 0 when the first symbol is '_' or '', else None
BlankId(symbols) ==
    IF symbols # <<>> /\ symbols[1] \in {"_", ""} THEN 0 ELSE NoBlank

\* self.symbols[j] if j < len(self.symbols) else ''
SymbolAt(symbols, j) == IF j + 1 \in DOMAIN symbols THEN symbols[j + 1] ELSE ""

----------------------------------------------------------------------------
(* commons.intersperse *)

\* intersperse with the item between the elements only
IntersperseBetween(lst, item) ==
    [k \in 1 .. (2 * Len(lst) - 1) |-> IF k % 2 = 1 THEN lst[(k + 1) \div 2] ELSE item]

\* result = [item] * (len(lst) * 2 + 1); result[1::2] = lst
Intersperse(lst, item) ==
    [k \in 1 .. (2 * Len(lst) + 1) |-> IF k % 2 = 0 THEN lst[k \div 2] ELSE item]

----------------------------------------------------------------------------
(* Stage 2 of the cascade: g2p ARPABET tokens -> ids.                      *)
(* An ARPABET token is a sequence of characters, e.g. <<"A","Y","1">>.     *)

UpperOf(c) == IF c \in LowerLetters
              THEN CHOOSE u \in UpperLetters : LowerOf[u] = c ELSE c

vowel_map ==
    (<<"A","A">> :> <<"ipa_A">>) @@ (<<"A","E">> :> <<"ipa_ae">>) @@
    (<<"A","H">> :> <<"ipa_V">>) @@ (<<"A","O">> :> <<"ipa_O">>) @@
    (<<"A","W">> :> <<"a","ipa_U">>) @@ (<<"A","Y">> :> <<"a","ipa_I">>) @@
    (<<"E","H">> :> <<"ipa_E">>) @@ (<<"E","R">> :> <<"ipa_3">>) @@
    (<<"E","Y">> :> <<"e","ipa_I">>) @@ (<<"I","H">> :> <<"ipa_I">>) @@
    (<<"I","Y">> :> <<"i">>) @@ (<<"O","W">> :> <<"o","ipa_U">>) @@
    (<<"O","Y">> :> <<"ipa_O","ipa_I">>) @@ (<<"U","H">> :> <<"ipa_U">>) @@
    (<<"U","W">> :> <<"u">>)

cons_map ==
    (<<"T","H">> :> <<"ipa_theta">>) @@ (<<"D","H">> :> <<"ipa_eth">>) @@
    (<<"N","G">> :> <<"ipa_eng">>) @@ (<<"S","H">> :> <<"ipa_esh">>) @@
    (<<"Z","H">> :> <<"ipa_ezh">>) @@ (<<"H","H">> :> <<"h">>) @@
    (<<"C","H">> :> <<"t","ipa_esh">>) @@ (<<"J","H">> :> <<"d","ipa_ezh">>)

\* the symbols one ARPABET token stands for (seq_syms)
ArpabetSyms(symbols, tk) ==
    LET hasStress == tk[Len(tk)] \in Digits
        stress_level == IF hasStress THEN tk[Len(tk)] ELSE "none"
        raw == IF hasStress THEN SubSeq(tk, 1, Len(tk) - 1) ELSE tk
        core == [i \in DOMAIN raw |-> UpperOf(raw[i])]
    IN IF core \in DOMAIN vowel_map
       THEN (IF core = <<"A","H">> /\ stress_level = "0" /\ InVocab(symbols, "ipa_schwa")
             THEN <<"ipa_schwa">> ELSE vowel_map[core])
       ELSE IF core \in DOMAIN cons_map THEN cons_map[core]
       ELSE LowerText(core)

RECURSIVE ArpabetLoop(_, _, _, _)
\* the loop of _arpabet_tokens_to_ids; pos is len(ids) when a token starts
ArpabetLoop(symbols, tokens, ids, stressed) ==
    IF tokens = <<>> THEN [ids |-> ids, stressed |-> stressed]
    ELSE LET tk == Head(tokens) IN
         IF tk = <<>> THEN ArpabetLoop(symbols, Tail(tokens), ids, stressed)
         ELSE LET syms == ArpabetSyms(symbols, tk)
                  kept == FilterSeq(syms, {s \in Range(syms) : InVocab(symbols, s)})
                  new == [i \in DOMAIN kept |-> Sym2Id(symbols, kept[i])]
                  mapped_any == kept # <<>>
                  pos == Len(ids)
              IN ArpabetLoop(symbols, Tail(tokens), ids \o new,
                     IF mapped_any /\ tk[Len(tk)] = "1"
                     THEN stressed \cup {pos} ELSE stressed)

\* _arpabet_tokens_to_ids(tokens) -> (ids, stressed)
ArpabetTokensToIds(symbols, tokens) == ArpabetLoop(symbols, tokens, <<>>, {})

----------------------------------------------------------------------------
(* Stage 3 of the cascade: the hand-written IPA dictionary *)

fallback_ipa ==
    (<<"n","i","c","e">> :> <<"n","a","ipa_I","s">>) @@
    (<<"m","e","e","t">> :> <<"m","i","ipa_long","t">>) @@
    (<<"y","o","u">> :> <<"j","u","ipa_long">>) @@
    (<<"h","e","l","l","o">> :> <<"h","ipa_schwa","l","o","ipa_U">>) @@
    (<<"t","h","e","r","e">> :> <<"ipa_eth","ipa_E","r">>) @@
    (<<"h","i">> :> <<"h","a","ipa_I">>) @@
    (<<"h","e","y">> :> <<"h","e","ipa_I">>)

ipa_alternatives ==
    ("r" :> <<"r","ipa_turned_r","ipa_flap">>) @@
    ("ipa_E" :> <<"ipa_E","e">>) @@
    ("ipa_eth" :> <<"ipa_eth","th">>) @@
    ("ipa_U" :> <<"ipa_U","u">>) @@
    ("ipa_schwa" :> <<"ipa_schwa","a">>) @@
    ("ipa_long" :> <<"ipa_long","">>)

\* the ids one character of a dictionary IPA string contributes (0 or 1 id):
\* the character itself, else its first alternative in the vocabulary, else
\* its lowercase form
IpaCharIds(symbols, ch) ==
    IF InVocab(symbols, ch) THEN <<Sym2Id(symbols, ch)>>
    ELSE LET alternatives == IF ch \in DOMAIN ipa_alternatives
                             THEN ipa_alternatives[ch] ELSE <<ch>>
             found == {k \in DOMAIN alternatives : InVocab(symbols, alternatives[k])}
         IN IF found # {}
            THEN <<Sym2Id(symbols, alternatives[CHOOSE k \in found :
                                                 \A m \in found : k <= m])>>
            ELSE IF InVocab(symbols, Lower(ch)) THEN <<Sym2Id(symbols, Lower(ch))>>
            ELSE <<>>

RECURSIVE IpaWordIds(_, _)
IpaWordIds(symbols, ipa_seq) ==
    IF ipa_seq = <<>> THEN <<>>
    ELSE IpaCharIds(symbols, Head(ipa_seq)) \o IpaWordIds(symbols, Tail(ipa_seq))

RECURSIVE CharIds(_, _)
\* for ch in chars: if ch in self.sym2id: seq.append(self.sym2id[ch])
CharIds(symbols, chars) ==
    IF chars = <<>> THEN <<>>
    ELSE (IF InVocab(symbols, Head(chars)) THEN <<Sym2Id(symbols, Head(chars))>>
          ELSE <<>>) \o CharIds(symbols, Tail(chars))

RECURSIVE IpaFallbackLoop(_, _, _)
\* the loop over words of stage 3, from word k on; the separator follows every
\* word that differs from the last word
IpaFallbackLoop(symbols, words, k) ==
    IF k > Len(words) THEN <<>>
    ELSE LET w == words[k]
             body == IF w \in DOMAIN fallback_ipa
                     THEN IpaWordIds(symbols, fallback_ipa[w])
                     ELSE CharIds(symbols, w)
             sep == IF InVocab(symbols, " ") /\ w # words[Len(words)]
                    THEN <<Sym2Id(symbols, " ")>> ELSE <<>>
         IN body \o sep \o IpaFallbackLoop(symbols, words, k + 1)

IpaFallback(symbols, text) == IpaFallbackLoop(symbols, CleanWords(text), 1)

\* stage 4 without text.lower()
CharacterFallbackAsTyped(symbols, text) == CharIds(symbols, text)

\* stage 4: every character of text.lower() that is in the vocabulary
CharacterFallback(symbols, text) == CharIds(symbols, LowerText(text))

----------------------------------------------------------------------------
(* _text_to_ids: the four-stage cascade, blank insertion, the cache.       *)
(* ov is what the external OpenVoice text_to_sequence does on this call    *)
(* ([throws, seq]); g2p is what the external g2p-en object returns (the    *)
(* ARPABET tokens, <<>> when it throws or cannot be built).                *)

\* _g2p_phonemes
G2pPhonemes(c, g2p) == IF ~c.g2p_installed THEN <<>> ELSE g2p

\* line 292: if not force_chars and self._openvoice_available
Stage1Runs(c, force_chars) == ~force_chars /\ c.openvoice_available

\* line 316: if not seq and not force_chars
Stage2Runs(seq, force_chars) == seq = <<>> /\ ~force_chars

\* line 327: if len(seq) < 3 and not force_chars
Stage3Runs(seq, force_chars) == Len(seq) < 3 /\ ~force_chars

\* line 380: if len(seq) < 3
Stage4Runs(seq) == Len(seq) < 3

NoCascade ==
    [seq |-> <<>>, ran |-> {}, len1 |-> 0, len2 |-> 0, len3 |-> 0,
     sets_stress |-> FALSE, stressed |-> {}]

\* lines 291-314: stage 1, OpenVoice text_to_sequence; an exception leaves
\* seq empty.  st is the cascade so far: the list seq, the stages that ran,
\* the length of seq after each of the first three stages, whether stage 2
\* assigned _last_stress_indices and to what
OpenVoiceStage(c, force_chars, ov, st) ==
    IF Stage1Runs(c, force_chars)
    THEN [st EXCEPT !.seq = IF ov.throws THEN <<>> ELSE ov.seq,
                    !.ran = @ \cup {1},
                    !.len1 = IF ov.throws THEN 0 ELSE Len(ov.seq)]
    ELSE st

\* what stage 2 gets from g2p: the ids and the stressed positions
G2pStageResult(c, g2p, st) ==
    IF G2pPhonemes(c, g2p) = <<>>
    THEN [st EXCEPT !.ran = @ \cup {2}, !.len2 = Len(st.seq), !.sets_stress = TRUE]
    ELSE [st EXCEPT !.seq = @ \o ArpabetTokensToIds(c.symbols, G2pPhonemes(c, g2p)).ids,
                    !.ran = @ \cup {2},
                    !.len2 = Len(st.seq)
                             + Len(ArpabetTokensToIds(c.symbols, G2pPhonemes(c, g2p)).ids),
                    !.sets_stress = TRUE,
                    !.stressed = ArpabetTokensToIds(c.symbols,
                                                    G2pPhonemes(c, g2p)).stressed]

\* lines 316-325: stage 2, g2p-en ARPABET
G2pStage(c, force_chars, g2p, st) ==
    IF Stage2Runs(st.seq, force_chars)
    THEN G2pStageResult(c, g2p, st)
    ELSE [st EXCEPT !.len2 = Len(st.seq)]

\* lines 327-378: stage 3, the IPA dictionary; its ids are appended
IpaStage(c, text, force_chars, st) ==
    IF Stage3Runs(st.seq, force_chars)
    THEN [st EXCEPT !.seq = @ \o IpaFallback(c.symbols, text),
                    !.ran = @ \cup {3},
                    !.len3 = Len(st.seq) + Len(IpaFallback(c.symbols, text))]
    ELSE [st EXCEPT !.len3 = Len(st.seq)]

\* lines 380-384: stage 4, the characters; its ids are appended
CharacterStage(c, text, st) ==
    IF Stage4Runs(st.seq)
    THEN [st EXCEPT !.seq = @ \o CharacterFallback(c.symbols, text),
                    !.ran = @ \cup {4}]
    ELSE st

\* lines 287-384: the token list after the four stages, with what ran
Cascade(c, text, force_chars, ov, g2p) ==
    CharacterStage(c, text,
        IpaStage(c, text, force_chars,
            G2pStage(c, force_chars, g2p,
                OpenVoiceStage(c, force_chars, ov, NoCascade))))

\* blank insertion wherever the table has a blank, whatever the
\* configuration and the length
AddBlanksAlways(c, seq) ==
    IF BlankId(c.symbols) # NoBlank /\ seq # <<>>
    THEN Intersperse(seq, BlankId(c.symbols))
    ELSE seq

\* lines 385-394: blank insertion
AddBlanks(c, seq) ==
    LET add_blank == c.data_add_blank \/ c.add_blank
        blank_id == BlankId(c.symbols)
    IN IF (add_blank \/ c.force_add_blank) /\ blank_id # NoBlank
          /\ seq # <<>> /\ Len(seq) > 3
       THEN Intersperse(seq, blank_id)
       ELSE seq

\* _text_to_ids without the cache lookup
CacheNeverHit(cache, key) == FALSE

\* lines 282-286: the cache lookup
CacheHit(cache, key) == key \in DOMAIN cache

\* lines 385-395: a cache miss, given what the cascade produced
CacheMiss(c, cache, stress, key, cas) ==
    [seq |-> AddBlanks(c, cas.seq),
     cache |-> (key :> AddBlanks(c, cas.seq)) @@ cache,
     stress |-> IF cas.sets_stress THEN cas.stressed ELSE stress,
     key |-> key, hit |-> FALSE, cascade |-> cas]

\* _text_to_ids with its cache key computed
TextToIdsKeyed(c, cache, stress, key, ov, g2p) ==
    IF CacheHit(cache, key)
    THEN [seq |-> cache[key], cache |-> cache, stress |-> stress,
          key |-> key, hit |-> TRUE, cascade |-> NoCascade]
    ELSE CacheMiss(c, cache, stress, key, Cascade(c, key[1], key[3], ov, g2p))

\* _text_to_ids(text, language, force_chars) called with the cache and the
\* stress set as they are: the returned ids, the cache and the stress set
\* afterwards, and what the call did
TextToIds(c, cache, stress, text, language, force_chars, ov, g2p) ==
    TextToIdsKeyed(c, cache, stress, <<text, language, force_chars>>, ov, g2p)

\* what a call leaves in the observation variables
TokObs(r) == [key |-> r.key, hit |-> r.hit, cascade |-> r.cascade, out |-> r.seq]

----------------------------------------------------------------------------
(* Sentence splitting: re.split(r'(?<=[.!?])\s+(?=[A-Z])', text.strip())  *)

SentenceEnd == {".", "!", "?"}

RECURSIVE RunEnd(_, _)
\* the last index of the whitespace run that starts at index i
RunEnd(t, i) ==
    IF i < Len(t) /\ t[i + 1] \in Whitespace THEN RunEnd(t, i + 1) ELSE i

RECURSIVE SplitAt(_, _, _)
\* the pieces of t from index start on, scanning from index i: a whitespace
\* run is a separator when '.', '!' or '?' precedes it and A-Z follows it
SplitAt(t, i, start) ==
    IF i > Len(t) THEN <<SubSeq(t, start, Len(t))>>
    ELSE IF t[i] \in Whitespace /\ i > 1 /\ t[i - 1] \in SentenceEnd
         THEN LET j == RunEnd(t, i) IN
              IF j < Len(t) /\ t[j + 1] \in UpperLetters
              THEN <<SubSeq(t, start, i - 1)>> \o SplitAt(t, j + 1, j + 1)
              ELSE SplitAt(t, j + 1, start)
         ELSE SplitAt(t, i + 1, start)

RECURSIVE StripAll(_)
\* [s.strip() for s in sentences if s.strip()]
StripAll(pieces) ==
    IF pieces = <<>> THEN <<>>
    ELSE (IF Strip(Head(pieces)) = <<>> THEN <<>> ELSE <<Strip(Head(pieces))>>)
         \o StripAll(Tail(pieces))

ShortTextLimit == 100

\* lines 706-711 and 893-898
SplitSentences(text) ==
    LET stripped == Strip(text)
        sentences == StripAll(SplitAt(stripped, 1, 1))
    IN IF sentences = <<>> \/ (Len(sentences) = 1 /\ Len(stripped) < ShortTextLimit)
       THEN <<stripped>>
       ELSE sentences

----------------------------------------------------------------------------
(* Reference embeddings.  An embedding is a record [prov, path, seed]:     *)
(* prov says which computation produced it, seed is the seed of the        *)
(* projection matrix a pseudo embedding was multiplied by (0 otherwise).   *)
(* env is what the file system and the numeric libraries do during one     *)
(* request: [kind, load_ok, spec_enc_ok, mel_enc_ok, enhanced_ok].         *)

NoPath == "none"
NoEmbedding == [prov |-> "none", path |-> NoPath, seed |-> 0]
NoProj == [seed |-> 0, in_dim |-> 0]

\* int(hashlib.md5(path.encode('utf-8')).hexdigest(), 16) % (2**31 - 1)
Md5Seed(path) ==
    CASE path = "a.wav" -> 940327267
      [] path = "b.wav" -> 729786576
      [] path = "c.wav" -> 1942525929
      [] OTHER -> 357303641

\* stats.shape[1]: mean and std per mel bin, six pitch statistics when the
\* pitch tracker finds more than 5 voiced frames, three energy statistics
\* when more than 5 frames are loud enough.  A property of the file: c.wav
\* stands for a clip without voiced frames.
InDim(c, path) ==
    2 * c.n_mels + (IF path = "c.wav" THEN 0 ELSE 6) + 3

\* lines 679-683: the projection matrix after the lazy initialisation
PseudoProj(c, proj, path) ==
    IF proj = NoProj \/ proj.in_dim # InDim(c, path)
    THEN [seed |-> Md5Seed(path), in_dim |-> InDim(c, path)]
    ELSE proj

\* the basic method as it would be without the pseudo embedding: the
\* trained encoder or nothing
ExtractReferenceEmbeddingNoPseudo(c, cache, proj, path, env) ==
    IF path # NoPath /\ env.kind = "file" /\ path \in DOMAIN cache
    THEN [emb |-> cache[path], cache |-> cache, proj |-> proj]
    ELSE IF path # NoPath /\ env.kind = "file" /\ env.load_ok /\ c.ref_enc = "present"
            /\ ~c.ref_enc_untrained /\ env.mel_enc_ok
    THEN [emb |-> [prov |-> "trained", path |-> path, seed |-> 0],
          cache |-> (path :> [prov |-> "trained", path |-> path, seed |-> 0]) @@ cache,
          proj |-> proj]
    ELSE [emb |-> NoEmbedding, cache |-> cache, proj |-> proj]

\* _extract_reference_embedding (lines 605-690)
ExtractReferenceEmbedding(c, cache, proj, path, env) ==
    LET same == [emb |-> NoEmbedding, cache |-> cache, proj |-> proj]
    IN IF path = NoPath \/ env.kind # "file" THEN same
       ELSE IF path \in DOMAIN cache
            THEN [emb |-> cache[path], cache |-> cache, proj |-> proj]
       ELSE IF ~env.load_ok THEN same
       ELSE IF c.ref_enc # "absent" /\ ~c.ref_enc_untrained
            THEN IF c.ref_enc = "present" /\ env.mel_enc_ok
                 THEN LET e == [prov |-> "trained", path |-> path, seed |-> 0]
                      IN [emb |-> e, cache |-> (path :> e) @@ cache, proj |-> proj]
                 ELSE same
       ELSE IF c.has_emb_g THEN same
       ELSE LET p == PseudoProj(c, proj, path)
                e == [prov |-> "pseudo", path |-> path, seed |-> p.seed]
            IN [emb |-> e, cache |-> (path :> e) @@ cache, proj |-> p]

\* _extract_reference_embedding_improved (lines 398-442), with
\* _create_enhanced_pseudo_embedding (lines 489-573) inside it
ExtractReferenceEmbeddingImproved(c, cache, proj, path, env) ==
    IF path = NoPath \/ env.kind = "missing"
    THEN [emb |-> NoEmbedding, cache |-> cache, proj |-> proj]
    ELSE IF path \in DOMAIN cache
         THEN [emb |-> cache[path], cache |-> cache, proj |-> proj]
    ELSE IF env.kind = "file" /\ env.load_ok /\ c.ref_enc = "present" /\ env.spec_enc_ok
         THEN LET e == [prov |-> "trained", path |-> path, seed |-> 0]
              IN [emb |-> e, cache |-> (path :> e) @@ cache, proj |-> proj]
    ELSE IF env.kind = "file" /\ env.load_ok /\ c.ref_enc # "present" /\ env.enhanced_ok
         THEN [emb |-> [prov |-> "enhanced", path |-> path, seed |-> 0],
               cache |-> cache, proj |-> proj]
    ELSE ExtractReferenceEmbedding(c, cache, proj, path, env)

\* lines 716-724 and 903-908: improved first, the basic method when it
\* returns None
ResolveReference(c, cache, proj, path, env) ==
    IF path = NoPath THEN [emb |-> NoEmbedding, cache |-> cache, proj |-> proj]
    ELSE LET r == ExtractReferenceEmbeddingImproved(c, cache, proj, path, env)
         IN IF r.emb = NoEmbedding
            THEN ExtractReferenceEmbedding(c, r.cache, r.proj, path, env)
            ELSE r

----------------------------------------------------------------------------
(* Prosody heuristics and inference parameters.                            *)
(* A base length_scale is held in hundredths (105 is 1.05); a sentence's   *)
(* length scale in millionths, so that the factors 1.06, 0.97 and 1.04     *)
(* apply exactly; the length_scale handed to model.infer is held in units  *)
(* of 1/20,000,000, so that the factors 1.05 (21/20) and 1.15 (23/20)      *)
(* apply exactly.                                                          *)

\* len(symbol): the empty symbol has no character, 'th' has two
SymChars(sym) == IF sym = "" THEN 0 ELSE IF sym = "th" THEN 2 ELSE 1

\* the characters of a symbol that are in 'aeiou'
VowelChars(sym) == IF sym \in {"a", "e", "i", "o", "u"} THEN 1 ELSE 0

RECURSIVE DecodedLen(_, _)
\* len(decoded), decoded the joined symbols of seq
DecodedLen(symbols, seq) ==
    IF seq = <<>> THEN 0
    ELSE SymChars(SymbolAt(symbols, Head(seq))) + DecodedLen(symbols, Tail(seq))

RECURSIVE DecodedVowels(_, _)
\* sum(1 for c in decoded if c in vowel_chars)
DecodedVowels(symbols, seq) ==
    IF seq = <<>> THEN 0
    ELSE VowelChars(SymbolAt(symbols, Head(seq))) + DecodedVowels(symbols, Tail(seq))

\* lines 738-751 and 934-947: sentence_length_scale, in millionths
SentenceLengthScale(c, prosody, seq, length_scale) ==
    LET base == length_scale * 10000
        decoded_len == DecodedLen(c.symbols, seq)
        vowels == DecodedVowels(c.symbols, seq)
        denom == IF decoded_len < 1 THEN 1 ELSE decoded_len
        by_ratio == IF 4 * vowels < denom THEN (base * 106) \div 100
                    ELSE IF 2 * vowels > denom THEN (base * 97) \div 100
                    ELSE base
    IN IF seq # <<>> /\ prosody
       THEN (IF Len(seq) < 12 THEN (by_ratio * 104) \div 100 ELSE by_ratio)
       ELSE base

\* lines 835-840 and 1002-1009: the length_scale of the first model.infer call
FirstCallScale(clarity, sls) == IF clarity THEN sls * 20 ELSE sls * 21

\* lines 854 and 1025: new_scale = length_scale * 1.15
RetryCallScale(clarity, sls) == sls * 23

RetryCeiling == 1500000

\* the retry test with the ceiling at 1.0
NeedsRetryCeilingOne(r, sls) ==
    r.dur_ok /\ r.dur_size > 3 /\ r.median_lt1 /\ sls < 1000000

\* lines 851-853 and 1019-1024: whether the first result is retried
NeedsRetry(r, sls) ==
    r.dur_ok /\ r.dur_size > 3 /\ r.median_lt1 /\ sls < RetryCeiling

\* int(self.model.enc_p.emb.num_embeddings)
VocabSize(c) == c.n_vocab

\* [j for j in seq if 0 <= j < vocab_size]
FilterTokens(c, seq) ==
    FilterSeq(seq, {j \in Range(seq) : 0 <= j /\ j < VocabSize(c)})

\* int(md5(path).hexdigest(), 16) % n_spk (lines 916-917), for the n_spk = 4
\* of the configurations with speaker embeddings
Md5ModSpeakers(c, path) ==
    CASE path = "a.wav" -> 1 [] path = "b.wav" -> 3 [] OTHER -> 1

\* lines 911-924: the speaker id synthesize conditions on (no speakers map
\* in the configuration, style 'default')
SpeakerId(c, path, emb) ==
    LET picked == IF emb = NoEmbedding /\ path # NoPath /\ c.has_emb_g
                  THEN Md5ModSpeakers(c, path) ELSE 0
    IN IF c.has_emb_g /\ picked >= c.n_speakers THEN 0 ELSE picked

\* int(0.05 * sampling_rate)
PauseSamples(c) == (5 * c.sampling_rate) \div 100

----------------------------------------------------------------------------
(* The synthesis requests, one step at a time.                             *)
(*   pc = "idle"   no request is running                                   *)
(*   pc = "loop"   at the head of the loop over sentences                  *)
(*   pc = "infer"  about to make the first model.infer call                *)
(*   pc = "retry"  about to make the duration-collapse retry               *)
(*   pc = "post"   about to post-process and append the segment            *)

IdleReq ==
    [mode |-> "none", sentences |-> <<>>, i |-> 0, length_scale |-> 0,
     g_latent |-> NoEmbedding, sid |-> 0, x |-> <<>>, sls |-> 0, y_hat |-> 0]

NoOutcome == [mode |-> "none", kind |-> "none", wave |-> <<>>, written |-> FALSE]

NoTok == [key |-> <<>>, hit |-> FALSE, cascade |-> NoCascade, out |-> <<>>]

\* set_clarity_mode(enabled)
SetClarityMode(enabled) ==
    /\ pc = "idle"
    /\ clarity_mode # enabled
    /\ clarity_mode' = enabled
    /\ UNCHANGED <<cfg, attn, tts, workers, svc, enable_prosody_heuristics, seq_cache, last_stress, ref_cache,
                   pseudo_proj, tok, returned, pc, req, infers, audio_segments,
                   outcome, calls>>

\* set_prosody_heuristics(enabled)
SetProsodyHeuristics(enabled) ==
    /\ pc = "idle"
    /\ enable_prosody_heuristics # enabled
    /\ enable_prosody_heuristics' = enabled
    /\ UNCHANGED <<cfg, attn, tts, workers, svc, clarity_mode, seq_cache, last_stress, ref_cache,
                   pseudo_proj, tok, returned, pc, req, infers, audio_segments,
                   outcome, calls>>

\* what a call of _text_to_ids leaves behind, r its result
TextToIdsReturns(r) ==
    /\ seq_cache' = r.cache
    /\ last_stress' = r.stress
    /\ tok' = TokObs(r)
    /\ returned' = returned \cup {<<r.key, r.seq>>}

\* _text_to_ids(text, force_chars=force_chars) called directly, as the
\* tests and debug scripts do
CallTextToIds(text, force_chars, ov, g2p) ==
    /\ pc = "idle"
    /\ TextToIdsReturns(TextToIds(cfg, seq_cache, last_stress, text, "en-us",
                                  force_chars, ov, g2p))
    /\ calls' = calls + 1
    /\ UNCHANGED <<cfg, attn, tts, workers, svc, clarity_mode, enable_prosody_heuristics, ref_cache,
                   pseudo_proj, pc, req, infers, audio_segments, outcome>>

\* synthesize_audio without the test of self.model
SynthesizeAudioUnchecked(text, reference_audio, length_scale, env) ==
    /\ pc = "idle"
    /\ LET r == ResolveReference(cfg, ref_cache, pseudo_proj, reference_audio, env)
       IN /\ ref_cache' = r.cache
          /\ pseudo_proj' = r.proj
          /\ req' = [IdleReq EXCEPT !.mode = "audio",
                                    !.sentences = SplitSentences(text),
                                    !.length_scale = length_scale,
                                    !.g_latent = r.emb]
          /\ pc' = "loop"
          /\ infers' = <<>>
          /\ audio_segments' = <<>>
          /\ outcome' = NoOutcome
    /\ calls' = calls + 1
    /\ UNCHANGED <<cfg, attn, tts, workers, svc, clarity_mode, enable_prosody_heuristics, seq_cache,
                   last_stress, tok, returned>>

\* synthesize_audio, lines 700-732: up to the loop over sentences
SynthesizeAudio(text, reference_audio, length_scale, env) ==
    /\ pc = "idle"
    /\ IF ~cfg.model_ok
       THEN /\ outcome' = [mode |-> "audio", kind |-> "raised", wave |-> <<>>,
                           written |-> FALSE]
            /\ UNCHANGED <<ref_cache, pseudo_proj, pc, req, infers, audio_segments>>
       ELSE LET r == ResolveReference(cfg, ref_cache, pseudo_proj, reference_audio, env)
            IN /\ ref_cache' = r.cache
               /\ pseudo_proj' = r.proj
               /\ req' = [IdleReq EXCEPT !.mode = "audio",
                                         !.sentences = SplitSentences(text),
                                         !.length_scale = length_scale,
                                         !.g_latent = r.emb]
               /\ pc' = "loop"
               /\ infers' = <<>>
               /\ audio_segments' = <<>>
               /\ outcome' = NoOutcome
    /\ calls' = calls + 1
    /\ UNCHANGED <<cfg, attn, tts, workers, svc, clarity_mode, enable_prosody_heuristics, seq_cache,
                   last_stress, tok, returned>>

\* synthesize, lines 884-928: up to the loop over sentences
Synthesize(text, reference_audio, has_output_path, length_scale, env) ==
    /\ pc = "idle"
    /\ IF ~cfg.model_ok
       THEN /\ outcome' = [mode |-> "file", kind |-> "false", wave |-> <<>>,
                           written |-> FALSE]
            /\ UNCHANGED <<ref_cache, pseudo_proj, pc, req, infers, audio_segments>>
       ELSE IF ~has_output_path
       THEN /\ outcome' = [mode |-> "file", kind |-> "raised", wave |-> <<>>,
                           written |-> FALSE]
            /\ UNCHANGED <<ref_cache, pseudo_proj, pc, req, infers, audio_segments>>
       ELSE LET r == ResolveReference(cfg, ref_cache, pseudo_proj, reference_audio, env)
            IN /\ ref_cache' = r.cache
               /\ pseudo_proj' = r.proj
               /\ req' = [IdleReq EXCEPT !.mode = "file",
                                         !.sentences = SplitSentences(text),
                                         !.length_scale = length_scale,
                                         !.g_latent = r.emb,
                                         !.sid = SpeakerId(cfg, reference_audio, r.emb)]
               /\ pc' = "loop"
               /\ infers' = <<>>
               /\ audio_segments' = <<>>
               /\ outcome' = NoOutcome
    /\ calls' = calls + 1
    /\ UNCHANGED <<cfg, attn, tts, workers, svc, clarity_mode, enable_prosody_heuristics, seq_cache,
                   last_stress, tok, returned>>

\* lines 954-962: the fallback of synthesize, r1 the first tokenization and
\* r2 the one with force_chars=True; its ids are used as returned
ForceCharsFallback(r1, r2) ==
    [x |-> r2.seq, seq |-> r1.seq, last |-> r2,
     rets |-> {<<r1.key, r1.seq>>, <<r2.key, r2.seq>>}]

\* lines 792-802 and 949-962: the vocabulary filter on the first
\* tokenization r1; synthesize tokenizes again when nothing is left
FilterOrFallback(c, mode, sentence, ov, g2p, r1) ==
    IF mode = "file" /\ FilterTokens(c, r1.seq) = <<>>
    THEN ForceCharsFallback(r1, TextToIds(c, r1.cache, r1.stress, sentence, "en",
                                          TRUE, ov, g2p))
    ELSE [x |-> FilterTokens(c, r1.seq), seq |-> r1.seq, last |-> r1,
          rets |-> {<<r1.key, r1.seq>>}]

\* lines 736 and 932-962 with 792-802: the ids of a sentence as they reach
\* model.infer (<<>>: the sentence is skipped), and the tokenizer's state
\* afterwards.  synthesize_audio filters inside _synthesize_sequence;
\* synthesize filters and, left with nothing, tokenizes again with
\* force_chars=True.
SentenceTokens(c, mode, cache, stress, sentence, ov, g2p) ==
    FilterOrFallback(c, mode, sentence, ov, g2p,
                     TextToIds(c, cache, stress, sentence, "en", FALSE, ov, g2p))

\* what tokenizing sentence i does to the request, t the tokens of
\* SentenceTokens
TokenizeResult(t) ==
    /\ seq_cache' = t.last.cache
    /\ last_stress' = t.last.stress
    /\ tok' = TokObs(t.last)
    /\ returned' = returned \cup t.rets
    /\ infers' = <<>>
    /\ IF t.x = <<>>
       THEN /\ req' = [req EXCEPT !.i = req.i + 1, !.x = <<>>]
            /\ pc' = "loop"
       ELSE /\ req' = [req EXCEPT !.x = t.x,
                           !.sls = SentenceLengthScale(cfg,
                                      enable_prosody_heuristics, t.seq,
                                      req.length_scale)]
            /\ pc' = "infer"

\* the head of the loop over sentences: tokenize sentence i, compute its
\* length scale, and go on to inference or skip the sentence
TokenizeSentence(ov, g2p) ==
    /\ pc = "loop"
    /\ req.i < Len(req.sentences)
    /\ TokenizeResult(SentenceTokens(cfg, req.mode, seq_cache, last_stress,
                                     req.sentences[req.i + 1], ov, g2p))
    /\ UNCHANGED <<cfg, attn, tts, workers, svc, clarity_mode, enable_prosody_heuristics, ref_cache,
                   pseudo_proj, audio_segments, outcome, calls>>

\* a model.infer call that is given an embedding of its own making when the
\* request has none
InferCallPseudo(scale, r) ==
    [x |-> req.x, length_scale |-> scale, sid |-> req.sid,
     g_latent |-> IF req.g_latent = NoEmbedding
                  THEN [NoEmbedding EXCEPT !.prov = "pseudo"] ELSE req.g_latent,
     raises |-> r.raises, dur_ok |-> r.dur_ok,
     dur_size |-> r.dur_size, median_lt1 |-> r.median_lt1]

\* one model.infer call as the request makes it, with what it returned
InferCall(scale, r) ==
    [x |-> req.x, length_scale |-> scale, sid |-> req.sid,
     g_latent |-> req.g_latent, raises |-> r.raises, dur_ok |-> r.dur_ok,
     dur_size |-> r.dur_size, median_lt1 |-> r.median_lt1]

\* lines 846-857 and 1015-1028: the first model.infer call of a sentence;
\* an exception ends the request
InferFirst(r) ==
    /\ pc = "infer"
    /\ infers' = Append(infers, InferCall(FirstCallScale(clarity_mode, req.sls), r))
    /\ IF r.raises
       THEN /\ pc' = "idle"
            /\ req' = IdleReq
            /\ audio_segments' = <<>>
            /\ outcome' = [mode |-> req.mode, kind |-> "raised", wave |-> <<>>,
                           written |-> FALSE]
       ELSE /\ pc' = IF NeedsRetry(r, req.sls) THEN "retry" ELSE "post"
            /\ req' = [req EXCEPT !.y_hat = r.samples]
            /\ UNCHANGED <<audio_segments, outcome>>
    /\ UNCHANGED <<cfg, attn, tts, workers, svc, clarity_mode, enable_prosody_heuristics, seq_cache,
                   last_stress, ref_cache, pseudo_proj, tok, returned, calls>>

\* lines 854-859 and 1025-1031: the retry; an exception is swallowed and
\* the first result kept
InferRetry(r) ==
    /\ pc = "retry"
    /\ infers' = Append(infers, InferCall(RetryCallScale(clarity_mode, req.sls), r))
    /\ req' = [req EXCEPT !.y_hat = IF r.raises THEN req.y_hat ELSE r.samples]
    /\ pc' = "post"
    /\ UNCHANGED <<cfg, attn, tts, workers, svc, clarity_mode, enable_prosody_heuristics, seq_cache,
                   last_stress, ref_cache, pseudo_proj, tok, returned,
                   audio_segments, outcome, calls>>

\* lines 762-769 and 1048-1054: what one synthesized sentence adds to
\* audio_segments
SegmentAndPause(c, segments, samples, peak, i, n_sentences) ==
    Append(segments, [kind |-> "segment", n |-> samples, peak |-> peak])
    \o (IF i < n_sentences - 1
        THEN <<[kind |-> "silence", n |-> PauseSamples(c), peak |-> 0]>> ELSE <<>>)

\* the end of a loop iteration: the segment is post-processed and appended.
\* peak is the largest absolute sample of the segment as appended, in
\* thousandths: of the model's output when clarity_mode is off, and in
\* clarity mode of the output after mean removal, scaling to a peak of
\* 0.89, the make-up gain for an RMS below 0.072 and the pre-emphasis
\* x[n] - 0.97 x[n-1] (lines 862-872 and 1035-1045), which both raise it
AppendSegment(peak) ==
    /\ pc = "post"
    /\ audio_segments' = SegmentAndPause(cfg, audio_segments, req.y_hat, peak, req.i,
                                         Len(req.sentences))
    /\ req' = [req EXCEPT !.i = req.i + 1, !.x = <<>>, !.y_hat = 0]
    /\ pc' = "loop"
    /\ infers' = <<>>
    /\ UNCHANGED <<cfg, attn, tts, workers, svc, clarity_mode, enable_prosody_heuristics, seq_cache,
                   last_stress, ref_cache, pseudo_proj, tok, returned,
                   outcome, calls>>

\* the end of a request without the test for an empty segment list
RequestResultUnguarded(mode, segments, write_ok) ==
    IF mode = "file" /\ ~write_ok
    THEN [mode |-> mode, kind |-> "raised", wave |-> <<>>, written |-> FALSE]
    ELSE [mode |-> mode, kind |-> "ok", wave |-> segments, written |-> mode = "file"]

\* np.max(np.abs(final_audio)) of the concatenated segments, in thousandths
PeakOf(segments) ==
    IF segments = <<>> THEN 0
    ELSE CHOOSE p \in {segments[k].peak : k \in DOMAIN segments} :
             \A k \in DOMAIN segments : segments[k].peak <= p

PeakCeiling == 950

\* lines 1063-1070, the final normalization of synthesize: a peak above
\* 0.95 scales every sample by 0.95 / peak
FinalNormalization(segments) ==
    IF PeakOf(segments) > PeakCeiling
    THEN [k \in DOMAIN segments |->
             [segments[k] EXCEPT !.peak = (@ * PeakCeiling) \div PeakOf(segments)]]
    ELSE segments

\* lines 771-776 and 1056-1073: the result of a request.  synthesize_audio
\* returns the concatenation as it is; synthesize normalizes it and writes it
RequestResult(mode, segments, write_ok) ==
    IF segments = <<>>
    THEN [mode |-> mode, kind |-> IF mode = "audio" THEN "raised" ELSE "false",
          wave |-> <<>>, written |-> FALSE]
    ELSE IF mode = "file" /\ ~write_ok
    THEN [mode |-> mode, kind |-> "raised", wave |-> <<>>, written |-> FALSE]
    ELSE [mode |-> mode, kind |-> "ok",
          wave |-> IF mode = "file" THEN FinalNormalization(segments) ELSE segments,
          written |-> mode = "file"]

\* after the last sentence: concatenate and return, or fail
Finish(write_ok) ==
    /\ pc = "loop"
    /\ req.i = Len(req.sentences)
    /\ outcome' = RequestResult(req.mode, audio_segments, write_ok)
    /\ pc' = "idle"
    /\ req' = IdleReq
    /\ audio_segments' = <<>>
    /\ infers' = <<>>
    /\ UNCHANGED <<cfg, attn, tts, workers, svc, clarity_mode, enable_prosody_heuristics, seq_cache,
                   last_stress, ref_cache, pseudo_proj, tok, returned, calls>>

----------------------------------------------------------------------------
(* Configurations and inputs *)

\* a symbol table with the empty symbol first, as the default table has
SymA == <<"", "h", "a", "ipa_I", "e", "j", "u", "ipa_long", " ", "o", "k", "i", "l">>
\* a plain-letter table: no blank, no separator, no IPA symbol
SymB == <<"h", "a", "i", "e", "o", "k", "u">>
\* a table with '_' first and a repeated symbol, as the default table
\* repeats the vowels of its IPA and latin blocks
SymD == <<"_", "a", "h", "i", "a", "o", "k", "e">>

DefaultSamplingRate == 22050
\* the peak 0.89 a segment is scaled to in clarity mode, in thousandths
ClarityPeak == 890
DefaultMelChannels == 80
NumSpeakers == 4

BaseConfig ==
    [symbols |-> SymA, data_add_blank |-> TRUE, add_blank |-> FALSE,
     force_add_blank |-> FALSE, n_vocab |-> Len(SymA),
     sampling_rate |-> DefaultSamplingRate, n_mels |-> DefaultMelChannels,
     openvoice_available |-> FALSE, g2p_installed |-> FALSE,
     model_ok |-> TRUE, weights |-> "checkpoint", ref_enc |-> "absent",
     ref_enc_untrained |-> FALSE,
     has_emb_g |-> FALSE, n_speakers |-> 0,
     hp_spec_channels |-> 0, hp_filter_length |-> 0, ckpt_spec_channels |-> 0,
     spec_channels |-> DefaultMelChannels]

T_Hi == <<"H", "i">>
T_OK == <<"O", "K">>
T_Hello == <<"H", "e", "l", "l", "o">>
T_HiZz == <<"H", "i", ".", " ", "Z", "z">>
T_ZzHi == <<"Z", "z", ".", " ", "H", "i">>
T_HelloHiOk == <<"H", "e", "l", "l", "o", ".", " ", "H", "i", "?", " ", "\n", "O", "k">>
T_HiZzOk == <<"H", "i", "!", " ", "Z", "z", ".", " ", "O", "k">>
T_Empty == <<" ">>

\* what the external OpenVoice text_to_sequence may do on a call
OvOutcomes ==
    {[throws |-> TRUE, seq |-> <<>>]} \cup
    {[throws |-> FALSE, seq |-> q] : q \in {<<>>, <<2>>, <<1, 2>>, <<1, 2, 3>>,
                                           <<1, 2, 3, 99>>}}

\* what the external g2p object may return (<<>>: nothing, or it threw)
G2pOutcomes ==
    {<<>>,
     << <<"A","H","0">> >>,
     << <<"H","H">>, <<"A","Y","1">> >>,
     << <<"H","H">>, <<"A","H","0">>, <<"L">>, <<"O","W","1">> >>}

\* what the model stub of a model.infer call may do: raise, or return an
\* alignment whose durations cannot be computed (dur_ok false), or dur_size
\* durations with a median below 1.0 or not, and samples audio samples
InferOutcomes(sizes, samples) ==
    {[raises |-> TRUE, dur_ok |-> FALSE, dur_size |-> 0, median_lt1 |-> FALSE,
      samples |-> 0]}
    \cup {[raises |-> FALSE, dur_ok |-> FALSE, dur_size |-> 0, median_lt1 |-> FALSE,
           samples |-> n] : n \in samples}
    \cup [raises : {FALSE}, dur_ok : {TRUE}, dur_size : sizes, median_lt1 : BOOLEAN,
          samples : samples]

RefEnvs ==
    [kind : {"missing", "dir", "file"}, load_ok : BOOLEAN, spec_enc_ok : BOOLEAN,
     mel_enc_ok : BOOLEAN, enhanced_ok : BOOLEAN]

----------------------------------------------------------------------------
(* TTSEngine (voice/tts_engine.py): speak starts one _speak_thread per     *)
(* call.  A worker is the record of one such thread:                       *)
(*   pc = "start"     the thread has been started                          *)
(*   pc = "announce"  about to add sentence i+1 to the accumulated text    *)
(*   pc = "dispatch"  about to choose the backend for sentence i+1         *)
(*   pc = "fallback"  about to speak sentence i+1 with pyttsx3             *)
(*   pc = "done"      the loop is over                                     *)
(*   pc = "raised"    pyttsx3 raised and the thread died                   *)
(* log is what the thread has done, in order: typing_callback calls        *)
(* [ev |-> "callback", text, is_complete], neural attempts                 *)
(* [ev |-> "openvoice", k, result] and pyttsx3 utterances                  *)
(* [ev |-> "pyttsx3", k, ok] for sentence k.                               *)

RECURSIVE ClassRunEnd(_, _, _)
\* the last index of the run of characters of class cls that starts at i
ClassRunEnd(t, i, cls) ==
    IF i < Len(t) /\ t[i + 1] \in cls THEN ClassRunEnd(t, i + 1, cls) ELSE i

RECURSIVE Chunks(_, _, _)
\* re.split(r'([.!?]+\s+|\n+)', text): the pieces and the separators
\* between them, scanning from index i with the current piece begun at start
Chunks(t, i, start) ==
    IF i > Len(t) THEN <<SubSeq(t, start, Len(t))>>
    ELSE IF t[i] \in SentenceEnd
              /\ ClassRunEnd(t, i, SentenceEnd) < Len(t)
              /\ t[ClassRunEnd(t, i, SentenceEnd) + 1] \in Whitespace
         THEN LET j == ClassRunEnd(t, ClassRunEnd(t, i, SentenceEnd) + 1, Whitespace)
              IN <<SubSeq(t, start, i - 1), SubSeq(t, i, j)>> \o Chunks(t, j + 1, j + 1)
    ELSE IF t[i] = "\n"
         THEN LET j == ClassRunEnd(t, i, {"\n"})
              IN <<SubSeq(t, start, i - 1), SubSeq(t, i, j)>> \o Chunks(t, j + 1, j + 1)
    ELSE Chunks(t, i + 1, start)

WordsPerPart == 8

RECURSIVE Parts(_, _, _)
\* the loop over the chunks: blank chunks are skipped, a part is closed
\* after 8 words or at a chunk that ends with '.', '!' or '?'
Parts(chunks, current, word_count) ==
    IF chunks = <<>> THEN (IF Strip(current) = <<>> THEN <<>> ELSE <<Strip(current)>>)
    ELSE LET chunk == Head(chunks)
             words == word_count + Len(SplitWords(chunk, <<>>))
         IN IF Strip(chunk) = <<>> THEN Parts(Tail(chunks), current, word_count)
            ELSE IF words >= WordsPerPart
                    \/ Strip(chunk)[Len(Strip(chunk))] \in SentenceEnd
                 THEN <<Strip(current \o chunk)>> \o Parts(Tail(chunks), <<>>, 0)
                 ELSE Parts(Tail(chunks), current \o chunk, words)

\* _split_into_sentences(text)
SplitIntoSentences(text) == Parts(Chunks(text, 1, 1), <<>>, 0)

\* everything but the facade's variables
synth_vars == <<cfg, attn, clarity_mode, enable_prosody_heuristics, seq_cache, last_stress,
                ref_cache, pseudo_proj, tok, returned, pc, req, infers,
                audio_segments, outcome, calls>>

\* speak(text, typing_callback): a daemon thread is started and speak returns
Speak(text, has_callback) ==
    /\ workers' = Append(workers,
                         [text |-> text, callback |-> has_callback, pc |-> "start",
                          sentences |-> <<>>, i |-> 0, accumulated_text |-> <<>>,
                          log |-> <<>>])
    /\ UNCHANGED <<synth_vars, tts, svc>>

\* the log after typing_callback(text, is_complete), when there is a callback
TypingCallback(w, text, is_complete) ==
    IF w.callback
    THEN Append(w.log, [ev |-> "callback", text |-> text, is_complete |-> is_complete])
    ELSE w.log

\* _speak_thread up to the loop: the text is split and the callback is
\* called with the empty text
SpeakThreadStart(n) ==
    /\ n \in DOMAIN workers
    /\ workers[n].pc = "start"
    /\ LET sentences == SplitIntoSentences(workers[n].text)
       IN workers' = [workers EXCEPT ![n] =
              [@ EXCEPT !.sentences = sentences,
                        !.log = TypingCallback(workers[n], <<>>, FALSE),
                        !.pc = IF sentences = <<>> THEN "done" ELSE "announce"]]
    /\ UNCHANGED <<synth_vars, tts, svc>>

\* the head of the loop body: the sentence joins the accumulated text and
\* the callback is called, with is_complete for the last sentence
AnnounceSentence(n) ==
    /\ n \in DOMAIN workers
    /\ workers[n].pc = "announce"
    /\ LET w == workers[n]
           accumulated_text == w.accumulated_text \o w.sentences[w.i + 1]
       IN workers' = [workers EXCEPT ![n] =
              [@ EXCEPT !.accumulated_text = accumulated_text,
                        !.log = TypingCallback(w, accumulated_text,
                                               w.i = Len(w.sentences) - 1),
                        !.pc = "dispatch"]]
    /\ UNCHANGED <<synth_vars, tts, svc>>

\* the worker at the end of the loop body for sentence i+1
NextSentence(w, log) ==
    [w EXCEPT !.log = log, !.i = w.i + 1,
              !.pc = IF w.i + 1 = Len(w.sentences) THEN "done" ELSE "announce"]

OpenvoiceResults == {"played", "subprocess_failed", "no_output", "playback_failed"}

\* the backend test and _speak_with_openvoice_subprocess(sentence):
\* available is what _is_openvoice_available finds on the disk; result is
\* what the subprocess and the two players do.  Every result but "played"
\* is an exception, caught and logged, after which pyttsx3 speaks
SpeakWithOpenvoice(n, available, result) ==
    /\ n \in DOMAIN workers
    /\ workers[n].pc = "dispatch"
    /\ LET w == workers[n]
           attempted == Append(w.log, [ev |-> "openvoice", k |-> w.i + 1,
                                       result |-> result])
       IN workers' = [workers EXCEPT ![n] =
              IF available /\ (tts.ref_audio # NoPath \/ tts.engine_dir # NoPath)
              THEN IF result = "played" THEN NextSentence(w, attempted)
                   ELSE [w EXCEPT !.log = attempted, !.pc = "fallback"]
              ELSE [w EXCEPT !.pc = "fallback"]]
    /\ tts' = [tts EXCEPT !.raised =
                  @ \/ (available /\ result # "played"
                          /\ (tts.ref_audio # NoPath \/ tts.engine_dir # NoPath))]
    /\ UNCHANGED <<synth_vars, svc>>

\* the fallback as it would be inside a try whose except goes on to the next
\* sentence
SpeakWithPyttsx3Swallowing(n, ok) ==
    /\ n \in DOMAIN workers
    /\ workers[n].pc = "fallback"
    /\ workers' = [workers EXCEPT ![n] =
           NextSentence(@, Append(@.log, [ev |-> "pyttsx3", k |-> @.i + 1, ok |-> ok]))]
    /\ UNCHANGED <<synth_vars, tts, svc>>

\* pyttsx3.init(), say(sentence), runAndWait(): outside any try, so an
\* exception ends the thread
SpeakWithPyttsx3(n, ok) ==
    /\ n \in DOMAIN workers
    /\ workers[n].pc = "fallback"
    /\ LET w == workers[n]
           spoken == Append(w.log, [ev |-> "pyttsx3", k |-> w.i + 1, ok |-> ok])
       IN workers' = [workers EXCEPT ![n] =
              IF ok THEN NextSentence(w, spoken)
              ELSE [w EXCEPT !.log = spoken, !.pc = "raised"]]
    /\ UNCHANGED <<synth_vars, tts, svc>>

\* the engine after set_voice_reference(path)
RefAudio(path, isfile) ==
    [tts EXCEPT !.ref_audio = IF path # NoPath /\ isfile THEN path ELSE NoPath,
                !.raised = FALSE]

\* set_voice_reference(path)
SetVoiceReference(path, isfile) ==
    /\ tts' = RefAudio(path, isfile)
    /\ UNCHANGED <<synth_vars, workers, svc>>

\* set_engine_dir(path)
SetEngineDir(path, isdir) ==
    /\ tts' = [tts EXCEPT !.engine_dir = IF path # NoPath /\ isdir THEN path ELSE NoPath,
                         !.raised = FALSE]
    /\ UNCHANGED <<synth_vars, workers, svc>>

----------------------------------------------------------------------------
(* VoiceEngineService (services/voice_engine_service.py).  A voice         *)
(* configuration is a record [reference_audio, engine_type]; NoConfig is   *)
(* None.  svc.saved maps the engine names with a file in saved_engines to  *)
(* the configuration written there; svc.processing is the audio_path of    *)
(* the select_voice_sample call in progress, and svc.signals the signals   *)
(* emitted since the last processing_started, that one included.           *)

NoConfig == [reference_audio |-> NoPath, engine_type |-> "none"]

NoService ==
    [current_voice_config |-> NoConfig, is_processing |-> FALSE,
     processing |-> NoPath, signals |-> <<>>, saved |-> <<>>,
     last |-> [op |-> "none", name |-> "", exists |-> FALSE, ok |-> FALSE],
     calls |-> 0]

\* the service after a call: the call, what the disk said of the reference
\* audio it looked for, and what it returned are kept in last (observation)
Returned(s, op, name, exists, ok) ==
    [s EXCEPT !.last = [op |-> op, name |-> name, exists |-> exists, ok |-> ok],
              !.calls = @ + 1]

\* select_voice_sample(audio_path) up to processing_started.emit(): exists
\* is what the disk says of audio_path.  A refused call returns False; an
\* accepted one sets the flag and emits the signal, whose slots run before
\* _process_voice_sample is called, so that other calls of the service can
\* come in between
SelectVoiceSample(audio_path, exists) ==
    /\ svc' = IF svc.is_processing \/ ~exists
              THEN Returned(svc, "select", audio_path, exists, FALSE)
              ELSE [svc EXCEPT !.is_processing = TRUE, !.processing = audio_path,
                               !.signals = <<"processing_started">>]
    /\ UNCHANGED <<synth_vars, tts, workers>>

\* _process_voice_sample with an except clause that only logs
ProcessVoiceSampleLogOnly(isfile, available, available_after) ==
    /\ svc.is_processing
    /\ tts' = RefAudio(svc.processing, isfile)
    /\ svc' =
         IF available
         THEN Returned([svc EXCEPT !.signals = @ \o <<"processing_progress",
                                                      "processing_progress">>],
                       "select", svc.processing, TRUE, TRUE)
         ELSE Returned([svc EXCEPT
                          !.current_voice_config =
                              [reference_audio |-> svc.processing,
                               engine_type |-> IF available_after THEN "openvoice"
                                               ELSE "pyttsx3"],
                          !.is_processing = FALSE,
                          !.signals = @ \o <<"processing_progress", "processing_progress",
                                             "processing_progress",
                                             "processing_finished(True)", "voice_ready">>],
                       "select", svc.processing, TRUE, TRUE)
    /\ UNCHANGED <<synth_vars, workers>>

\* _process_voice_sample(audio_path), which runs in the caller's thread, and
\* the return of select_voice_sample.  isfile is what the disk says of
\* audio_path; available is _is_openvoice_available() at line 78 and
\* available_after at line 97.  TTSEngine has no attribute openvoice, so the
\* test synthesis at line 80 raises whenever it is reached, and the except
\* clause clears the flag and emits processing_finished(False)
ProcessVoiceSample(isfile, available, available_after) ==
    /\ svc.is_processing
    /\ tts' = RefAudio(svc.processing, isfile)
    /\ svc' =
         IF available
         THEN Returned([svc EXCEPT
                          !.is_processing = FALSE,
                          !.signals = @ \o <<"processing_progress", "processing_progress",
                                             "processing_finished(False)">>],
                       "select", svc.processing, TRUE, TRUE)
         ELSE Returned([svc EXCEPT
                          !.current_voice_config =
                              [reference_audio |-> svc.processing,
                               engine_type |-> IF available_after THEN "openvoice"
                                               ELSE "pyttsx3"],
                          !.is_processing = FALSE,
                          !.signals = @ \o <<"processing_progress", "processing_progress",
                                             "processing_progress",
                                             "processing_finished(True)", "voice_ready">>],
                       "select", svc.processing, TRUE, TRUE)
    /\ UNCHANGED <<synth_vars, workers>>

\* save_current_engine(engine_name): written says whether open and
\* json.dump succeed; a failed write may leave a file that is not JSON
SaveCurrentEngine(engine_name, written, leaves_file) ==
    /\ svc' =
         IF svc.current_voice_config = NoConfig
         THEN Returned(svc, "save", engine_name, FALSE, FALSE)
         ELSE IF written
         THEN Returned([svc EXCEPT !.saved = (engine_name :> svc.current_voice_config) @@ @],
                       "save", engine_name, FALSE, TRUE)
         ELSE Returned([svc EXCEPT !.saved = IF leaves_file
                                             THEN (engine_name :> NoConfig) @@ @ ELSE @],
                       "save", engine_name, FALSE, FALSE)
    /\ UNCHANGED <<synth_vars, tts, workers>>

\* load_saved_engine(engine_name): exists and isfile are what the disk says
\* of the saved reference_audio.  A file that is not JSON makes json.load
\* raise, and a reference_audio of null makes os.path.exists(None) raise
\* TypeError; both are caught by the except at line 200
LoadSavedEngine(engine_name, exists, isfile) ==
    /\ LET loads == /\ engine_name \in DOMAIN svc.saved
                    /\ svc.saved[engine_name] # NoConfig
                    /\ svc.saved[engine_name].reference_audio # NoPath
                    /\ exists
       IN IF loads
          THEN /\ tts' = RefAudio(svc.saved[engine_name].reference_audio, isfile)
               /\ svc' = Returned([svc EXCEPT !.current_voice_config =
                                                svc.saved[engine_name]],
                                  "load", engine_name, exists, TRUE)
          ELSE svc' = Returned(svc, "load", engine_name, exists, FALSE) /\ UNCHANGED tts
    /\ UNCHANGED <<synth_vars, workers>>

\* use_base_speaker()
UseBaseSpeaker ==
    /\ tts' = RefAudio(NoPath, FALSE)
    /\ svc' = Returned([svc EXCEPT !.current_voice_config =
                          [reference_audio |-> NoPath, engine_type |-> "openvoice_base"]],
                       "base", "", FALSE, TRUE)
    /\ UNCHANGED <<synth_vars, workers>>

----------------------------------------------------------------------------
(* commons.generate_path (voice/internal_openvoice/commons.py), for a      *)
(* batch of one.  A tensor of shape (rows, columns) is a sequence of rows, *)
(* each a sequence of numbers; index k of the code is index k + 1 here.    *)

NoAttn == [duration |-> <<>>, mask |-> <<>>, path |-> <<>>]

\* sequence_mask(length, max_length): row j is arange(max_length) < length[j]
SequenceMask(length, max_length) ==
    [j \in DOMAIN length |->
        [t \in 1..max_length |-> IF t - 1 < length[j] THEN 1 ELSE 0]]

RECURSIVE CumSum(_)
\* torch.cumsum(duration, -1)
CumSum(d) ==
    IF d = <<>> THEN <<>>
    ELSE LET c == CumSum(SubSeq(d, 1, Len(d) - 1))
         IN Append(c, (IF c = <<>> THEN 0 ELSE c[Len(c)]) + d[Len(d)])

\* generate_path without the subtraction of the shifted mask
GeneratePathCumulative(duration, mask) ==
    LET t_y == Len(mask)
        t_x == Len(duration)
        cum_duration == CumSum(duration)
        path == SequenceMask(cum_duration, t_y)
    IN [t \in 1..t_y |-> [j \in 1..t_x |-> path[j][t] * mask[t][j]]]

\* generate_path(duration, mask), mask of shape (t_y, t_x): the cumulative
\* durations, their sequence mask of shape (t_x, t_y), minus the same mask
\* padded with a zero row in front and cut to t_x rows, transposed and
\* multiplied by mask
GeneratePath(duration, mask) ==
    LET t_y == Len(mask)
        t_x == Len(duration)
        cum_duration == CumSum(duration)
        path == SequenceMask(cum_duration, t_y)
        padded == <<[t \in 1..t_y |-> 0]>> \o path
    IN [t \in 1..t_y |->
          [j \in 1..t_x |-> (path[j][t] - padded[j][t]) * mask[t][j]]]

\* a generate_path call
GeneratePathCall(duration, mask) ==
    /\ attn' = [duration |-> duration, mask |-> mask,
                path |-> GeneratePath(duration, mask)]
    /\ UNCHANGED <<cfg, clarity_mode, enable_prosody_heuristics, seq_cache,
                   last_stress, ref_cache, pseudo_proj, tok, returned, pc, req,
                   infers, audio_segments, outcome, calls, tts, workers, svc>>

----------------------------------------------------------------------------
(* Specifications *)

\* the state after VoiceSynthesizer.__init__ with one of the configurations
InitWith(configs) ==
    /\ cfg \in configs
    /\ clarity_mode = TRUE
    /\ enable_prosody_heuristics = TRUE
    /\ seq_cache = <<>>
    /\ last_stress = {}
    /\ ref_cache = <<>>
    /\ pseudo_proj = NoProj
    /\ tok = NoTok
    /\ returned = {}
    /\ pc = "idle"
    /\ req = IdleReq
    /\ infers = <<>>
    /\ audio_segments = <<>>
    /\ outcome = NoOutcome
    /\ calls = 0
    /\ attn = NoAttn
    /\ tts = [ref_audio |-> NoPath, engine_dir |-> NoPath, raised |-> FALSE]
    /\ workers = <<>>
    /\ svc = NoService

\* _load_model(model_path) on configuration c.  checkpoint says what is at
\* model_path: "missing" (no path, or no file there), "unreadable"
\* (torch.load raises) or "readable"; build_ok whether SynthesizerTrn(...)
\* and .to(device) succeed; load_ok whether load_state_dict succeeds.  Every
\* exception is caught: __init__ returns the instance in each case, with
\* model None or with the weights the model was constructed with
LoadModel(c, checkpoint, build_ok, load_ok) ==
    [c EXCEPT !.model_ok = build_ok,
              !.weights = IF ~build_ok THEN "none"
                          ELSE IF checkpoint = "readable" /\ load_ok THEN "checkpoint"
                          ELSE "random"]

\* min(a, b)
Min(a, b) == IF a < b THEN a ELSE b

DefaultFilterLength == 1024
SpecChannelsCap == 513

\* n_fft // 2 + 1, n_fft being cfg.get('filter_length') or the data
\* section's value (0: no filter_length is configured, or a zero one)
MaxBins(filter_length) ==
    (IF filter_length # 0 THEN filter_length ELSE DefaultFilterLength) \div 2 + 1

\* the mutant of SpecChannels that never looks at the checkpoint
SpecChannelsConfigOnly(configured, ckpt_channels, filter_length) ==
    IF configured > MaxBins(filter_length)
    THEN Min(SpecChannelsCap, MaxBins(filter_length))
    ELSE configured

\* the spec_channels SynthesizerTrn is constructed with: the configured
\* value, replaced by the second dimension of the checkpoint's
\* enc_q.pre.weight when the checkpoint has that tensor (ckpt_channels # 0)
\* and it differs, and then clamped when it exceeds n_fft // 2 + 1
SpecChannels(configured, ckpt_channels, filter_length) ==
    LET detected == IF ckpt_channels # 0 /\ ckpt_channels # configured
                    THEN ckpt_channels ELSE configured
    IN IF detected > MaxBins(filter_length)
       THEN Min(SpecChannelsCap, MaxBins(filter_length))
       ELSE detected

\* configuration c with hyper-parameters spec_channels and filter_length (0:
\* absent) after _load_model has read a checkpoint whose enc_q.pre.weight
\* has ckpt_channels input channels (0: the checkpoint has no such tensor)
BuildWith(c, spec_channels, filter_length, ckpt_channels) ==
    [c EXCEPT !.hp_spec_channels = spec_channels,
              !.hp_filter_length = filter_length,
              !.ckpt_spec_channels = ckpt_channels,
              !.spec_channels =
                  SpecChannels(IF spec_channels # 0 THEN spec_channels ELSE c.n_mels,
                               ckpt_channels, filter_length)]

\* a configuration: symbol table, n_vocab, data.add_blank, whether the
\* OpenVoice package is importable
Config(sy, nv, ab, ova) ==
    [BaseConfig EXCEPT !.symbols = sy, !.n_vocab = nv, !.data_add_blank = ab,
                       !.openvoice_available = ova]

\* no reference audio: nothing of the file system is looked at
NoRefEnv ==
    [kind |-> "missing", load_ok |-> FALSE, spec_enc_ok |-> FALSE,
     mel_enc_ok |-> FALSE, enhanced_ok |-> FALSE]

----------------------------------------------------------------------------
(* Spec: one synthesis request, sentence by sentence, after any calls of   *)
(* set_clarity_mode and set_prosody_heuristics.                            *)

MaxRequests == 1

\* n_vocab as the length of the symbol table (the default) and overridden
\* to less; the default configuration after every outcome of _load_model
SynthConfigs ==
    {Config(SymA, Len(SymA), TRUE, FALSE), Config(SymA, Len(SymA), TRUE, TRUE),
     Config(SymA, 9, TRUE, FALSE), Config(SymA, 9, FALSE, FALSE),
     Config(SymB, Len(SymB), FALSE, FALSE), Config(SymB, 2, FALSE, FALSE)}
    \cup {LoadModel(BaseConfig, ck, b, l) :
            ck \in {"missing", "unreadable", "readable"}, b \in BOOLEAN, l \in BOOLEAN}

SynthTexts == {T_Hi, T_HiZz, T_ZzHi, T_HiZzOk, T_HelloHiOk, T_Empty}

\* OpenVoice throws, or returns two ids, or four with one out of range
SynthOvOutcomes == {o \in OvOutcomes : o.throws \/ Len(o.seq) \in {2, 4}}

SynthInferOutcomes == InferOutcomes({3, 4}, {DefaultSamplingRate})

Init == InitWith(SynthConfigs)

Next ==
    \/ \E b \in BOOLEAN : SetClarityMode(b)
    \/ \E b \in BOOLEAN : SetProsodyHeuristics(b)
    \/ /\ calls < MaxRequests
       /\ \E t \in SynthTexts, ls \in {105, 150} :
             SynthesizeAudio(t, NoPath, ls, NoRefEnv)
    \/ /\ calls < MaxRequests
       /\ \E t \in SynthTexts, ls \in {105, 150}, op \in BOOLEAN :
             Synthesize(t, NoPath, op, ls, NoRefEnv)
    \/ \E ov \in SynthOvOutcomes : TokenizeSentence(ov, <<>>)
    \/ \E r \in SynthInferOutcomes : InferFirst(r)
    \/ \E r \in SynthInferOutcomes : InferRetry(r)
    \/ AppendSegment(ClarityPeak)
    \/ \E w \in BOOLEAN : Finish(w)

Spec == Init /\ [][Next]_vars

----------------------------------------------------------------------------
(* SpecTok: _text_to_ids called directly and by synthesize_audio, in any   *)
(* order, on one synthesizer.                                              *)

MaxTokCalls == 3

\* a symbol table with the blank-insertion switches data.add_blank,
\* add_blank and force_add_blank, without and with the two optional backends
TokConfigs ==
    {[BaseConfig EXCEPT !.symbols = sb[1], !.n_vocab = Len(sb[1]),
                        !.data_add_blank = sb[2], !.add_blank = sb[3],
                        !.force_add_blank = sb[4],
                        !.openvoice_available = backends,
                        !.g2p_installed = backends]
       : sb \in {<<SymA, FALSE, FALSE, FALSE>>, <<SymA, TRUE, FALSE, FALSE>>,
                 <<SymA, FALSE, FALSE, TRUE>>, <<SymD, FALSE, TRUE, FALSE>>,
                 <<SymB, TRUE, FALSE, FALSE>>},
         backends \in BOOLEAN}

\* the texts of the direct _text_to_ids calls; the request tokenizes T_Hi
TokTexts == {T_OK, T_Hello}

\* OpenVoice throws, or returns one, three or four ids; nothing is asked of
\* a backend that is not there
TokOvOutcomes ==
    IF cfg.openvoice_available
    THEN {o \in OvOutcomes : o.throws \/ Len(o.seq) \in {1, 3, 4}}
    ELSE {[throws |-> TRUE, seq |-> <<>>]}

TokG2pOutcomes ==
    IF cfg.g2p_installed THEN {g \in G2pOutcomes : Len(g) # 1} ELSE {<<>>}

\* an inference that returns audio and is not retried
PlainInference ==
    [raises |-> FALSE, dur_ok |-> TRUE, dur_size |-> 4, median_lt1 |-> FALSE,
     samples |-> DefaultSamplingRate]

InitTok == InitWith(TokConfigs)

NextTok ==
    \/ /\ calls < MaxTokCalls
       /\ \E t \in TokTexts, fc \in BOOLEAN, ov \in TokOvOutcomes,
             g2p \in TokG2pOutcomes :
             CallTextToIds(t, fc, ov, g2p)
    \/ /\ calls < MaxTokCalls
       /\ SynthesizeAudio(T_Hi, NoPath, 105, NoRefEnv)
    \/ \E ov \in TokOvOutcomes, g2p \in TokG2pOutcomes : TokenizeSentence(ov, g2p)
    \/ InferFirst(PlainInference)
    \/ AppendSegment(ClarityPeak)
    \/ Finish(TRUE)

SpecTok == InitTok /\ [][NextTok]_vars

----------------------------------------------------------------------------
(* SpecRef: requests with reference audio on one synthesizer.              *)

MaxRefRequests == 2

\* the model's reference encoder and speaker table: _ref_enc_untrained is
\* set only for an encoder that exists, n_speakers counts the rows of emb_g
RefConfigs ==
    {c \in {[BaseConfig EXCEPT !.ref_enc = re, !.ref_enc_untrained = un,
                               !.has_emb_g = eg,
                               !.n_speakers = IF eg THEN NumSpeakers ELSE 0]
              : re \in {"absent", "none", "present"}, un \in BOOLEAN,
                eg \in BOOLEAN}
       : c.ref_enc_untrained => c.ref_enc = "present"}

RefPaths == {"a.wav", "b.wav", "c.wav"}

InitRef == InitWith(RefConfigs)

NextRef ==
    \/ /\ calls < MaxRefRequests
       /\ \E path \in RefPaths, env \in RefEnvs :
             SynthesizeAudio(T_Hi, path, 105, env)
    \/ /\ calls < MaxRefRequests
       /\ SynthesizeAudio(T_ZzHi, NoPath, 105, NoRefEnv)
    \/ /\ calls < MaxRefRequests
       /\ \E path \in RefPaths, env \in RefEnvs :
             Synthesize(T_Hi, path, TRUE, 105, env)
    \/ TokenizeSentence([throws |-> TRUE, seq |-> <<>>], <<>>)
    \/ \E m \in BOOLEAN : InferFirst([PlainInference EXCEPT !.median_lt1 = m])
    \/ InferRetry(PlainInference)
    \/ AppendSegment(ClarityPeak)
    \/ Finish(TRUE)

SpecRef == InitRef /\ [][NextRef]_vars

----------------------------------------------------------------------------
(* SpecFacade: speak on one TTSEngine, its thread interleaved with         *)
(* set_voice_reference and set_engine_dir.                                 *)

MaxSpeakCalls == 1

T_None == <<>>
T_Lines == <<"a", " ", "b", " ", "c", " ", "d", "\n", "e", " ", "f", " ", "g", " ",
             "h", "\n", "i">>

\* the empty text, a blank text, one sentence, and eight words on two
\* lines followed by a ninth: two sentences
FacadeTexts == {T_None, T_Empty, T_Hi, T_Lines}

\* a new TTSEngine, and the VoiceEngineService that owns it
InitFacade == InitWith({BaseConfig})

NextFacade ==
    \/ /\ Len(workers) < MaxSpeakCalls
       /\ \E t \in FacadeTexts, cb \in BOOLEAN : Speak(t, cb)
    \/ \E n \in DOMAIN workers : SpeakThreadStart(n)
    \/ \E n \in DOMAIN workers : AnnounceSentence(n)
    \/ \E n \in DOMAIN workers, av \in BOOLEAN, r \in OpenvoiceResults :
          SpeakWithOpenvoice(n, av, r)
    \/ \E n \in DOMAIN workers, ok \in BOOLEAN : SpeakWithPyttsx3(n, ok)
    \/ \E p \in {NoPath, "a.wav"}, f \in BOOLEAN : SetVoiceReference(p, f)
    \/ \E p \in {NoPath, "engine"}, d \in BOOLEAN : SetEngineDir(p, d)

SpecFacade == InitFacade /\ [][NextFacade]_vars

----------------------------------------------------------------------------
(* SpecOverlap: speak called again while earlier threads are running, on   *)
(* an engine with a voice reference.                                       *)

MaxOverlap == 2

NextOverlap ==
    \/ /\ Len(workers) < MaxOverlap
       /\ \E t \in {T_Hi, T_HiZz} : Speak(t, TRUE)
    \/ \E n \in DOMAIN workers : SpeakThreadStart(n)
    \/ \E n \in DOMAIN workers : AnnounceSentence(n)
    \/ \E n \in DOMAIN workers, r \in {"played", "subprocess_failed"} :
          SpeakWithOpenvoice(n, TRUE, r)
    \/ \E n \in DOMAIN workers : SpeakWithPyttsx3(n, TRUE)
    \/ SetVoiceReference("a.wav", TRUE)

SpecOverlap == InitFacade /\ [][NextOverlap]_vars

----------------------------------------------------------------------------
(* SpecSvc: calls of one VoiceEngineService, in any order.                 *)

MaxSvcCalls == 4

EngineNames == {"e1", "e2"}

NextSvc ==
    \/ /\ svc.calls < MaxSvcCalls
       /\ \E p \in {"a.wav", "b.wav"}, exists \in BOOLEAN : SelectVoiceSample(p, exists)
    \/ \E isfile \in BOOLEAN, av \in BOOLEAN, av2 \in BOOLEAN :
          ProcessVoiceSample(isfile, av, av2)
    \/ /\ svc.calls < MaxSvcCalls
       /\ \E e \in EngineNames, wr \in BOOLEAN, lf \in BOOLEAN : SaveCurrentEngine(e, wr, lf)
    \/ /\ svc.calls < MaxSvcCalls
       /\ \E e \in EngineNames, kind \in {"missing", "dir", "file"} :
             LoadSavedEngine(e, kind # "missing", kind = "file")
    \/ /\ svc.calls < MaxSvcCalls
       /\ UseBaseSpeaker

SpecSvc == InitFacade /\ [][NextSvc]_vars

----------------------------------------------------------------------------
(* SpecPeak: requests, with and without a reference clip, whose segments   *)
(* come out of the post-processing with different peaks, on a synthesizer  *)
(* whose model was built and on one whose model could not be built.        *)

MaxPeakRequests == 1

\* a quiet segment; one at 1.3; and the segment an output alternating
\* between +a and -a becomes in clarity mode: 0.89 + 0.97 * 0.89 = 1.753
SegmentPeaks == {500, 1300, 1753}

InitPeak == InitWith({BaseConfig, LoadModel(BaseConfig, "missing", FALSE, FALSE)})

NextPeak ==
    \/ \E b \in BOOLEAN : SetClarityMode(b)
    \/ /\ calls < MaxPeakRequests
       /\ \E t \in {T_Hi, T_HiZz, T_HiZzOk}, path \in {NoPath, "a.wav"} :
             SynthesizeAudio(t, path, 105, [NoRefEnv EXCEPT !.kind = "file",
                                                           !.load_ok = TRUE,
                                                           !.enhanced_ok = TRUE])
    \/ /\ calls < MaxPeakRequests
       /\ \E t \in {T_Hi, T_HiZz, T_HiZzOk} : Synthesize(t, NoPath, TRUE, 105, NoRefEnv)
    \/ TokenizeSentence([throws |-> TRUE, seq |-> <<>>], <<>>)
    \/ InferFirst(PlainInference)
    \/ \E p \in SegmentPeaks : AppendSegment(p)
    \/ Finish(TRUE)

SpecPeak == InitPeak /\ [][NextPeak]_vars

----------------------------------------------------------------------------
(* SpecPath: generate_path on every duration vector of up to MaxTokens     *)
(* tokens with durations up to MaxDuration, and masks of up to MaxFrames   *)
(* frames that are all ones or hide the last frame.                        *)

MaxTokens == 2
MaxDuration == 2
MaxFrames == 5

\* a mask of t_y frames and t_x tokens that is 1 on the first y_len frames
FrameMask(t_y, t_x, y_len) ==
    [t \in 1..t_y |-> [j \in 1..t_x |-> IF t <= y_len THEN 1 ELSE 0]]

NextPath ==
    \E t_x \in 0..MaxTokens, t_y \in 0..MaxFrames :
       \E duration \in [1..t_x -> 0..MaxDuration], y_len \in {t_y - 1, t_y} :
          y_len >= 0 /\ GeneratePathCall(duration, FrameMask(t_y, t_x, y_len))

SpecPath == InitFacade /\ [][NextPath]_vars

----------------------------------------------------------------------------
(* SpecStress: one synthesize request of two sentences on a synthesizer    *)
(* with both optional backends, each sentence tokenized by OpenVoice or,   *)
(* OpenVoice failing, by g2p with or without a stressed vowel.             *)

MaxStressRequests == 1

InitStress ==
    InitWith({[BaseConfig EXCEPT !.openvoice_available = TRUE,
                                 !.g2p_installed = TRUE]})

NextStress ==
    \/ \E b \in BOOLEAN : SetProsodyHeuristics(b)
    \/ /\ calls < MaxStressRequests
       /\ \E t \in {T_ZzHi, T_HiZzOk} : Synthesize(t, NoPath, TRUE, 105, NoRefEnv)
    \/ \E ov \in {o \in OvOutcomes : o.throws \/ Len(o.seq) = 3},
          g2p \in {g \in G2pOutcomes : Len(g) # 1} : TokenizeSentence(ov, g2p)
    \/ InferFirst(PlainInference)
    \/ AppendSegment(ClarityPeak)
    \/ Finish(TRUE)

SpecStress == InitStress /\ [][NextStress]_vars

----------------------------------------------------------------------------
(* SpecBuild: the synthesizer constructed from every combination of a      *)
(* configured spec_channels, a filter_length and a checkpoint tensor.      *)

\* spec_channels absent or 80, 513, 600; filter_length absent or 128, 1024,
\* 2048; a checkpoint without enc_q.pre.weight or with 80 to 1100 channels
InitBuild ==
    InitWith({BuildWith(BaseConfig, sc, fl, ck) :
                sc \in {0, 80, 513, 600}, fl \in {0, 128, 1024, 2048},
                ck \in {0, 80, 513, 600, 1025, 1100}})

NextBuild ==
    \/ \E b \in BOOLEAN : SetClarityMode(b)
    \/ \E b \in BOOLEAN : SetProsodyHeuristics(b)

SpecBuild == InitBuild /\ [][NextBuild]_vars

----------------------------------------------------------------------------
(* Properties of synthesis requests, under Spec *)

\* C1: every token id handed to model.infer lies in [0, vocab_size), in
\* synthesize_audio and in synthesize, its force_chars fallback included
C1_IdsInVocabulary ==
    \A k \in DOMAIN infers : \A j \in DOMAIN infers[k].x :
        0 <= infers[k].x[j] /\ infers[k].x[j] < VocabSize(cfg)

\* the positions of the audio segments and of the silence buffers of a wave
SegmentsOf(w) == {i \in DOMAIN w : w[i].kind = "segment"}
SilencesOf(w) == {i \in DOMAIN w : w[i].kind = "silence"}

\* C2: a request in which k >= 1 sentences yield a segment returns a wave
\* with exactly k - 1 silence buffers of int(0.05 * sampling_rate) samples,
\* each between two consecutive segments, and none after the last segment
C2_SilenceOnlyBetweenSegments ==
    outcome.kind = "ok" =>
        /\ Cardinality(SilencesOf(outcome.wave))
              = Cardinality(SegmentsOf(outcome.wave)) - 1
        /\ \A i \in SilencesOf(outcome.wave) :
              /\ outcome.wave[i].n = PauseSamples(cfg)
              /\ i - 1 \in SegmentsOf(outcome.wave)
              /\ i + 1 \in SegmentsOf(outcome.wave)
        /\ Len(outcome.wave) \in SegmentsOf(outcome.wave)

C4_RetryScaleOfFirstCall ==
    Len(infers) = 2 => infers[2].length_scale * 20 = infers[1].length_scale * 23

\* C6: a request that ends with no segment raises (synthesize_audio) or
\* returns False without writing the file (synthesize), and a successful
\* result contains at least one synthesized segment
C6_NoSuccessWithoutAudio ==
    /\ [](outcome.kind = "ok" => SegmentsOf(outcome.wave) # {})
    /\ [](outcome.written => outcome.kind = "ok")
    /\ [][(pc = "loop" /\ pc' = "idle" /\ audio_segments = <<>>)
            => /\ outcome'.kind = (IF req.mode = "audio" THEN "raised" ELSE "false")
               /\ ~outcome'.written]_vars

\* synthesize returned False because no sentence yielded a segment
C6_Witness ==
    /\ cfg.model_ok /\ pc = "idle"
    /\ outcome.mode = "file" /\ outcome.kind = "false" /\ ~outcome.written

----------------------------------------------------------------------------
(* Properties of _text_to_ids, under SpecTok *)

\* the last call of _text_to_ids ran the cascade (it was not a cache hit)
Tokenized == tok.key # <<>> /\ ~tok.hit

\* C5: a cascade result of length L > 3, with blank insertion configured
\* and a blank id, is returned as 2L+1 ids: the blank id at every even
\* position (from 0) and the cascade's tokens, in order, at the odd ones
C5_BlanksInterspersed ==
    (/\ Tokenized
     /\ Len(tok.cascade.seq) > 3
     /\ (cfg.data_add_blank \/ cfg.add_blank \/ cfg.force_add_blank)
     /\ BlankId(cfg.symbols) # NoBlank)
    => /\ Len(tok.out) = 2 * Len(tok.cascade.seq) + 1
       /\ \A i \in 0 .. (Len(tok.out) - 1) :
             IF i % 2 = 0
             THEN tok.out[i + 1] = BlankId(cfg.symbols)
             ELSE tok.out[i + 1] = tok.cascade.seq[(i + 1) \div 2]

\* "Hello" through the IPA dictionary, with blanks: eleven ids
C5_Witness ==
    /\ Tokenized
    /\ Len(tok.cascade.seq) = 5 /\ Len(tok.out) = 11
    /\ BlankId(cfg.symbols) # NoBlank

\* C7: a text with a character whose lowercase form is in the vocabulary is
\* never tokenized to the empty sequence, whatever the backends do
C7_NeverEmpty ==
    (/\ tok.key # <<>>
     /\ \E i \in DOMAIN tok.key[1] : InVocab(cfg.symbols, Lower(tok.key[1][i])))
    => tok.out # <<>>

\* "OK" with force_chars: the ids come from stage 4 alone, and only because
\* it lowercases
C7_Witness ==
    /\ Tokenized /\ tok.key[1] = T_OK /\ tok.key[3]
    /\ tok.cascade.ran = {4} /\ tok.out # <<>>

\* C8: a stage of the cascade is attempted exactly when the tokens so far
\* are fewer than 3 (stage 2 also when stage 1 left 1 or 2 tokens), and no
\* stage runs once there are 3 tokens
C8_StageRunsIffShort ==
    (Tokenized /\ ~tok.key[3])
    => /\ 2 \in tok.cascade.ran <=> tok.cascade.len1 < 3
       /\ 3 \in tok.cascade.ran <=> tok.cascade.len2 < 3
       /\ 4 \in tok.cascade.ran <=> tok.cascade.len3 < 3

\* C9: two calls of _text_to_ids with the same (text, language,
\* force_chars) return equal sequences, whatever was tokenized or
\* synthesized between them
C9_SameKeySameIds ==
    \A a \in returned, b \in returned : a[1] = b[1] => a[2] = b[2]

\* a call answered from the cache after other texts were tokenized
C9_Witness ==
    /\ tok.key # <<>> /\ tok.hit
    /\ Cardinality(DOMAIN seq_cache) >= 2

----------------------------------------------------------------------------
(* Properties of reference embeddings, under SpecRef *)

\* C10: the pseudo embedding of a reference path is the product with the
\* projection matrix seeded from that path's MD5 hash, whatever was
\* extracted before
C10_ProjectionSeededFromOwnPath ==
    \A p \in DOMAIN ref_cache :
        ref_cache[p].prov = "pseudo" => ref_cache[p].seed = Md5Seed(p)

\* C15: a synthesizer whose checkpoint was missing or unreadable, or whose
\* model failed to build or to load its weights, is never handed back: no
\* model.infer call is made on a model that is absent or carries the
\* weights it was constructed with.
C15_NoInferenceWithoutCheckpoint ==
    infers # <<>> => cfg.model_ok /\ cfg.weights = "checkpoint"

NothingToLoad(env) == env.kind # "file" \/ ~env.load_ok

C20_SentencesNonEmpty ==
    pc # "idle" => /\ req.sentences # <<>>
                   /\ \A k \in DOMAIN req.sentences : req.sentences[k] # <<>>

\* C21: the waveform a request delivers, returned by synthesize_audio or
\* written by synthesize, has an absolute peak of at most 0.95.
C21_DeliveredPeakBounded ==
    outcome.kind = "ok" => PeakOf(outcome.wave) <= PeakCeiling

----------------------------------------------------------------------------
(* Claims about the TTSEngine facade *)

\* the step makes worker n attempt the neural backend
NeuralAttempt(n) ==
    /\ Len(workers'[n].log) > Len(workers[n].log)
    /\ workers'[n].log[Len(workers'[n].log)].ev = "openvoice"

\* C11: once a neural attempt has raised, no sentence of any speak attempts
\* the neural backend again before set_voice_reference or set_engine_dir
\* is called.
C11_OfflineAfterRaise ==
    [][\A n \in DOMAIN workers : tts.raised => ~NeuralAttempt(n)]_vars

\* the typing_callback calls of worker n, in order
CallbacksOf(n) == SelectSeq(workers[n].log, LAMBDA e : e.ev = "callback")

\* C12: a speak with a typing_callback whose thread has run to the end of
\* its loop has called the callback with is_complete = True exactly once,
\* in its last call.
C12_CompleteExactlyOnce ==
    \A n \in DOMAIN workers :
        workers[n].callback /\ workers[n].pc = "done"
        => /\ CallbacksOf(n) # <<>>
           /\ \A k \in DOMAIN CallbacksOf(n) :
                  CallbacksOf(n)[k].is_complete <=> k = Len(CallbacksOf(n))

IsPrefix(a, b) == Len(a) <= Len(b) /\ SubSeq(b, 1, Len(a)) = a

\* the step appends an event about sentence k to the log of worker n
StartsSentence(n, k) ==
    /\ Len(workers'[n].log) = Len(workers[n].log) + 1
    /\ LET e == workers'[n].log[Len(workers'[n].log)]
       IN IF e.ev = "callback" THEN workers'[n].i + 1 = k /\ workers[n].pc = "announce"
          ELSE e.k = k

\* sentence k of worker n has finished playing: the neural backend played
\* it or pyttsx3 spoke it
Played(n, k) ==
    \E j \in DOMAIN workers[n].log :
        LET e == workers[n].log[j]
        IN \/ e.ev = "openvoice" /\ e.k = k /\ e.result = "played"
           \/ e.ev = "pyttsx3" /\ e.k = k /\ e.ok

\* C13: the texts of a speak's typing_callback calls grow, each a prefix of
\* the next, and nothing of sentence k+1 (its callback, its neural attempt,
\* its pyttsx3 utterance) happens before sentence k has finished playing.
C13_SentencesInOrder ==
    /\ [](\A n \in DOMAIN workers : \A j \in DOMAIN CallbacksOf(n) :
            j > 1 => IsPrefix(CallbacksOf(n)[j - 1].text, CallbacksOf(n)[j].text))
    /\ [][\A n \in DOMAIN workers : \A k \in 2..Len(workers[n].sentences) :
            StartsSentence(n, k) => Played(n, k - 1)]_vars

\* a second sentence has been announced to the callback with more text than
\* the first, after the first was spoken by pyttsx3 in place of a failed
\* neural attempt
C13_Witness ==
    \E n \in DOMAIN workers :
        /\ Len(CallbacksOf(n)) = 3
        /\ Len(CallbacksOf(n)[3].text) > Len(CallbacksOf(n)[2].text)
        /\ \E j \in DOMAIN workers[n].log :
              workers[n].log[j].ev = "openvoice" /\ workers[n].log[j].k = 1
              /\ workers[n].log[j].result # "played"
        /\ Played(n, 1)

\* C14: at no time are the threads of two speak calls alive together: a
\* speak made while another is in flight is queued or rejected.
C14_OneSpeakInFlight ==
    Cardinality({n \in DOMAIN workers : workers[n].pc \notin {"done", "raised"}}) <= 1

\* C19: a sentence whose audio file the neural backend generated and whose
\* playback attempts all failed is not spoken by the fallback voice.
C19_PlaybackFailureNotFallback ==
    \A n \in DOMAIN workers : \A i, j \in DOMAIN workers[n].log :
        LET a == workers[n].log[i]
            b == workers[n].log[j]
        IN (a.ev = "openvoice" /\ a.result = "playback_failed" /\ b.ev = "pyttsx3")
           => b.k # a.k

----------------------------------------------------------------------------
(* Claims about VoiceEngineService *)

\* C16: when save_current_engine(name) has returned True for a cloned voice
\* whose reference file exists or for the base speaker, the load_saved_engine
\* (name) that follows returns True and leaves the current configuration
\* equal to the one that was saved.
C16_SaveThenLoad ==
    [][(/\ svc.last.op = "save" /\ svc.last.ok
        /\ svc'.calls = svc.calls + 1
        /\ svc'.last.op = "load" /\ svc'.last.name = svc.last.name
        /\ (svc.current_voice_config.reference_audio = NoPath \/ svc'.last.exists))
       => (svc'.last.ok /\ svc'.current_voice_config = svc.current_voice_config)]_vars

\* the spec_channels the configuration asks for
C22_Configured ==
    IF cfg.hp_spec_channels # 0 THEN cfg.hp_spec_channels ELSE cfg.n_mels

\* the checkpoint has enc_q.pre.weight and it implies another value
C22_CheckpointDiffers ==
    cfg.ckpt_spec_channels # 0 /\ cfg.ckpt_spec_channels # C22_Configured

C23_NoModelRaisesAtOnce ==
    [][(/\ ~cfg.model_ok /\ calls' # calls
        /\ (outcome'.mode = "audio" \/ req'.mode = "audio"))
       => /\ outcome'.kind = "raised"
          /\ pc' = "idle"
          /\ UNCHANGED <<seq_cache, last_stress, ref_cache, pseudo_proj, tok,
                         returned, infers, audio_segments>>]_vars

\* a raised synthesize_audio call on a synthesizer without a model
C23_Witness ==
    ~cfg.model_ok /\ outcome.mode = "audio" /\ outcome.kind = "raised" /\ calls > 0

\* none of data.add_blank, add_blank and force_add_blank is set
C24_NotConfigured == ~(cfg.data_add_blank \/ cfg.add_blank \/ cfg.force_add_blank)

\* C24: a _text_to_ids call that ran the cascade returns the cascade's
\* tokens as they are, in their order and with no blank id added, when
\* they are at most three, or blank insertion is not configured, or the
\* symbol table has no blank at index 0
C24_NoBlanksOutsideTheCase ==
    (/\ tok.key # <<>> /\ ~tok.hit
     /\ \/ Len(tok.cascade.seq) <= 3
        \/ C24_NotConfigured
        \/ BlankId(cfg.symbols) = NoBlank)
    => tok.out = tok.cascade.seq

\* three tokens returned as they are though blanks are configured and the
\* table has one
C24_Witness ==
    /\ tok.key # <<>> /\ ~tok.hit /\ Len(tok.cascade.seq) = 3
    /\ ~C24_NotConfigured /\ BlankId(cfg.symbols) # NoBlank
    /\ tok.out = tok.cascade.seq

C26_Frames(j) == {t \in 1..Len(attn.path) : attn.path[t][j] = 1}

RECURSIVE C26_Sum(_)
\* the sum of a sequence of numbers
C26_Sum(d) == IF d = <<>> THEN 0 ELSE Head(d) + C26_Sum(Tail(d))

\* d[0] + ... + d[j-1], the first frame of token j counted from 0
C26_Before(j) == C26_Sum(SubSeq(attn.duration, 1, j - 1))

\* the mask of the last call is all ones
C26_AllOnes ==
    \A t \in DOMAIN attn.mask : \A j \in DOMAIN attn.mask[t] : attn.mask[t][j] = 1

\* C26: for durations whose sum is at most the number of frames and an
\* all-ones mask, generate_path returns a 0/1 matrix in which token j owns
\* exactly the d[j] frames from d[0]+...+d[j-1] up to, not including,
\* d[0]+...+d[j]; so a frame below the total belongs to exactly one token,
\* one at or beyond it to none, and the tokens come in order
C26_PathFollowsDurations ==
    (C26_AllOnes /\ C26_Sum(attn.duration) <= Len(attn.mask))
    => /\ \A t \in DOMAIN attn.path : \A j \in DOMAIN attn.path[t] :
             attn.path[t][j] \in {0, 1}
       /\ \A j \in DOMAIN attn.duration :
             C26_Frames(j) = {t \in 1..Len(attn.mask) :
                                C26_Before(j) <= t - 1
                                /\ t - 1 < C26_Before(j) + attn.duration[j]}
       /\ \A t \in DOMAIN attn.path :
             Cardinality({j \in DOMAIN attn.duration : attn.path[t][j] = 1})
                = IF t - 1 < C26_Sum(attn.duration) THEN 1 ELSE 0

\* durations 1 and 2 laid out over four frames
C26_Witness ==
    /\ attn.duration = <<1, 2>> /\ Len(attn.mask) = 4 /\ C26_AllOnes
    /\ attn.path = << <<1, 0>>, <<0, 1>>, <<0, 1>>, <<0, 0>> >>

\* C27: every index of the symbol table is the id of the symbol at it:
\* sym2id[symbols[i]] = i for every i, so that sym2id and the list are
\* inverses of one another
C27_OneIndexPerSymbol ==
    \A i \in DOMAIN cfg.symbols : Sym2Id(cfg.symbols, cfg.symbols[i]) = i - 1

\* C28: when synthesize is about to compute the duration bias of a sentence
\* whose tokens the cascade has just produced, _last_stress_indices is the
\* set the g2p stage recorded for that sentence, and empty when the g2p
\* stage did not produce its tokens (they came from OpenVoice): never a set
\* left over from another sentence
C28_StressOfSameSentence ==
    (/\ pc = "infer" /\ req.mode = "file" /\ enable_prosody_heuristics
     /\ tok.key # <<>> /\ ~tok.hit)
    => last_stress = tok.cascade.stressed

\* the processing_finished signals among the signals of the last selection
C29_Finished ==
    {k \in DOMAIN svc.signals :
        svc.signals[k] \in {"processing_finished(True)", "processing_finished(False)"}}

\* C29: a select_voice_sample call that has emitted processing_started
\* emits processing_finished once, after it, and leaves _is_processing
\* False, whether the processing succeeds or raises; a call made while the
\* flag is True or for a missing file returns False, emits nothing and
\* changes neither the engine nor the current voice configuration
C29_StartedThenFinishedOnce ==
    /\ [](/\ svc.signals # <<>> => svc.signals[1] = "processing_started"
          /\ svc.is_processing => C29_Finished = {}
          /\ (~svc.is_processing /\ svc.signals # <<>>)
               => Cardinality(C29_Finished) = 1)
    /\ [][(svc.is_processing /\ svc'.signals # svc.signals)
           => (~svc'.is_processing /\ Cardinality(C29_Finished') = 1)]_vars
    /\ [][(/\ svc'.calls = svc.calls + 1 /\ svc'.last.op = "select"
           /\ (svc.is_processing /\ svc'.is_processing) \/ ~svc'.last.exists)
          => /\ ~svc'.last.ok
             /\ svc'.signals = svc.signals
             /\ svc'.is_processing = svc.is_processing
             /\ svc'.current_voice_config = svc.current_voice_config
             /\ tts' = tts]_vars

\* the processing of b.wav has raised and been reported once
C29_Witness ==
    /\ ~svc.is_processing
    /\ svc.last = [op |-> "select", name |-> "b.wav", exists |-> TRUE, ok |-> TRUE]
    /\ svc.signals = <<"processing_started", "processing_progress",
                       "processing_progress", "processing_finished(False)">>
    /\ svc.current_voice_config = NoConfig /\ tts.ref_audio = "b.wav"

\* C30: between the calls of select_voice_sample, load_saved_engine and
\* use_base_speaker, whether they succeeded or failed, the engine's
\* reference audio is the reference_audio of the current voice
\* configuration, both being absent before a voice is chosen and for the
\* base speaker
C30_EngineMatchesConfig ==
    ~svc.is_processing => tts.ref_audio = svc.current_voice_config.reference_audio

====
